---- MODULE Spec2Model ----
(***************************************************************************)
(* A model of EnsEquil's VirtualQueue (src/EnsEquil/_utils.py): an         *)
(* unbounded queue of Job objects that feeds the real slurm queue, which   *)
(* is reached through the squeue, sbatch and scancel commands; and of the  *)
(* run tree (src/EnsEquil/run/_simulation_runner.py, leg.py): nodes that   *)
(* are built from their arguments or reloaded from the pickle in their     *)
(* base directory, and that sum the free energies of their sub-runners.    *)
(***************************************************************************)
EXTENDS Integers, Sequences, FiniteSets, TLC

(* ------------------------------ bounds -------------------------------- *)
\* Number of jobs that are ever submitted to the virtual queue.
MaxJobs == 3
\* The same, where the scheduler and the file system do not fail.
FifoJobs == 5
\* Largest queue_len_lim the queue is constructed with.
MaxLim == 2
\* Number of slurm jobs of the same user that no VirtualQueue submitted.
MaxForeign == 1
\* Number of jobs submitted where two threads share the queue.
ConcJobs == 2

(* ------------------------------ values -------------------------------- *)
\* Job.slurm_job_id before sbatch returned one (Python's None).
None == 0

JobIds == 0 .. ((IF MaxJobs > FifoJobs THEN MaxJobs ELSE FifoJobs) - 1)

\* Slurm ids of the user's jobs that were not submitted through this queue
\* (negative, to keep them apart from the ids sbatch returns to the queue).
ForeignIds == {0 - i : i \in 1 .. MaxForeign}

\* class JobStatus
JobStatus == {"NONE", "QUEUED", "FINISHED", "FAILED", "KILLED"}

\* The lines has_failed looks for, and an ordinary line of output.
error_statements ==
    {"NaN or Inf has been generated along the simulation",
     "Particle coordinate is NaN"}
OkLine == "Simulation finished"

\* A file matching f"{slurm_file_base}*": its ctime and its lines.
File(t, ls) == [ctime |-> t, lines |-> ls]

\* What glob may find for a job when has_failed is called: nothing (the job
\* never wrote a file), one clean file, one file with an instability
\* message, or an older file with the message next to a newer clean one.
OutfileChoices ==
    { {},
      {File(1, <<OkLine>>)},
      {File(1, <<OkLine, "Particle coordinate is NaN">>)},
      {File(1, <<"NaN or Inf has been generated along the simulation">>),
       File(2, <<OkLine>>)} }

(* ------------------------------- state -------------------------------- *)
VARIABLES
    slurm_queue,            \* VirtualQueue._slurm_queue: virtual ids, in order
    pre_queue,              \* VirtualQueue._pre_queue: virtual ids, in order
    available_virt_job_id,  \* VirtualQueue._available_virt_job_id
    queue_len_lim,          \* VirtualQueue.queue_len_lim
    status,                 \* Job.status of every job, by virtual_job_id
    slurm_job_id,           \* Job.slurm_job_id of every job (None = 0)
    active,                 \* the real queue: ids squeue lists for $USER
    n_sbatch,               \* history: successful sbatch calls per job
    scancelled,             \* history: slurm ids scancel was run for
    last_call,              \* history: the last call and how it ended
    log,                    \* virtual_queue.log: the snapshots _update_log wrote
    takes_update_paths,     \* whether the SimulationRunner.__init__ a Leg runs
                            \* takes the update_paths keyword Leg passes to it
    input_files,            \* the files of every input directory
    pkl,                    \* base directory: <class name>.pkl, <<>> if absent
    obj,                    \* the object the last constructor call returned
    run_call,               \* history: the last call on the run tree
    node,                   \* analyse: a node, its sub-runners and their results
    analysed,               \* analyse: what the node's analyse() returned
    wait_pc,                \* where the caller of node.wait() is
    run_files,              \* the class-level run_files lists, by owning class
    dir_files,              \* clean: the files of the directories of the nodes
    pc,                     \* per thread: the line of update() it is at
    t_running_ids,          \* per thread: update's running_slurm_job_ids
    t_n_jobs_to_move,       \* per thread: update's n_jobs_to_move
    t_jobs_to_move          \* per thread: update's jobs_to_move not yet sbatched

qvars == <<slurm_queue, pre_queue, available_virt_job_id, queue_len_lim,
           status, slurm_job_id>>
envvars == <<active>>
histvars == <<n_sbatch, scancelled, last_call>>
\* The run tree: nothing the queue does touches it.
treevars == <<takes_update_paths, input_files, pkl, obj, run_call>>
cleanvars == <<run_files, dir_files>>
anvars == <<node, analysed, wait_pc, cleanvars>>
runvars == <<treevars, anvars>>
\* The locals of the threads that run update() at the same time.
thrvars == <<pc, t_running_ids, t_n_jobs_to_move, t_jobs_to_move>>
\* What a call made by a single caller leaves alone: submit, kill and
\* update never call _update_log (submit writes one "... submitted" line,
\* which is no snapshot).
outside_call == <<thrvars, log, runvars>>
\* What a step of a thread inside update() leaves alone.
outside_thread == <<available_virt_job_id, queue_len_lim, scancelled, last_call,
                    log, runvars>>
vars == <<qvars, envvars, histvars, log, thrvars, runvars>>

Threads == {1, 2}

(* ------------------------------ helpers ------------------------------- *)
Range(s) == {s[i] : i \in 1 .. Len(s)}

Min(a, b) == IF a < b THEN a ELSE b

\* Python's s[:n] and s[n:] for n >= 0.
Take(s, n) == SubSeq(s, 1, Min(n, Len(s)))
Drop(s, n) == SubSeq(s, Min(n, Len(s)) + 1, Len(s))

\* list.remove(x): the list without the first element equal to x.
RECURSIVE Remove(_, _)
Remove(s, x) ==
    IF s = <<>> THEN <<>>
    ELSE IF Head(s) = x THEN Tail(s)
    ELSE <<Head(s)>> \o Remove(Tail(s), x)

\* VirtualQueue.queue
queue == slurm_queue \o pre_queue

(* ------------------------- Job.has_failed ----------------------------- *)
\* Job.slurm_outfile: the matching file with the largest ctime.
slurm_outfile(files) ==
    CHOOSE f \in files : \A g \in files : g.ctime <= f.ctime

\* Job.has_failed: some line of slurm_outfile holds an error statement.
has_failed(files) ==
    LET f == slurm_outfile(files)
    IN \E i \in 1 .. Len(f.lines) : f.lines[i] \in error_statements

(* ------------------------ the squeue listing -------------------------- *)
\* A set of ids as a sequence, smallest first.
RECURSIVE SetToSeq(_)
SetToSeq(S) ==
    IF S = {} THEN <<>>
    ELSE LET m == CHOOSE x \in S : \A y \in S : x <= y
         IN <<m>> \o SetToSeq(S \ {m})

\* What output.decode('utf-8').strip().split(",") holds: the job ids squeue
\* printed, one empty string when it printed nothing, or, when squeue could
\* not reach the controller, its error message (stderr goes to the pipe).
Token(k, v) == [kind |-> k, val |-> v]

SqueueTokens(reachable, act) ==
    IF ~reachable THEN <<Token("text", 0)>>
    ELSE IF act = {} THEN <<Token("empty", 0)>>
    ELSE LET ids == SetToSeq(act)
         IN [i \in 1 .. Len(ids) |-> Token("int", ids[i])]

\* A slip: a token that is no number is skipped instead of raising.
ParseJobIdsLenient(tokens) ==
    [raised |-> FALSE,
     ids |-> {tokens[i].val : i \in {k \in 1 .. Len(tokens) : tokens[k].kind = "int"}}]

\* [int(job_id) for job_id in ... if job_id != ""]: int() raises ValueError
\* on a token that is not a number.
ParseJobIds(tokens) ==
    IF \E i \in 1 .. Len(tokens) : tokens[i].kind = "text"
    THEN [raised |-> TRUE, ids |-> {}]
    ELSE [raised |-> FALSE,
          ids |-> {tokens[i].val : i \in {k \in 1 .. Len(tokens) : tokens[k].kind = "int"}}]

(* ------------------------ VirtualQueue.update ------------------------- *)
\* The queue, its jobs and the real queue as one record, so that update can
\* be applied inside submit.
Q == [sq |-> slurm_queue, pq |-> pre_queue, st |-> status,
      sid |-> slurm_job_id, act |-> active, nsb |-> n_sbatch, ret |-> "ok"]

\* Lines 221-227: in queue order, set the status of every job whose
\* slurm_job_id is not listed; has_failed raises FileNotFoundError when no
\* file matches, which ends the loop with the statuses set so far.
\* files[job] is what glob finds for the job's slurm_file_base.
RECURSIVE ClassifyFrom(_, _, _, _)
ClassifyFrom(q, ids, files, i) ==
    IF i > Len(q.sq) THEN q
    ELSE LET job == q.sq[i] IN
         IF q.sid[job] \in ids THEN ClassifyFrom(q, ids, files, i + 1)
         ELSE IF files[job] = {} THEN [q EXCEPT !.ret = "FileNotFoundError"]
         ELSE ClassifyFrom(
                [q EXCEPT !.st[job] =
                    IF has_failed(files[job]) THEN "FAILED" ELSE "FINISHED"],
                ids, files, i + 1)

\* Line 229: keep the jobs whose slurm_job_id is listed.
KeepRunning(sq, sid, ids) == SelectSeq(sq, LAMBDA j : sid[j] \in ids)

\* A slip: one place too few.
n_jobs_to_move_less(lim, n_running) == lim - n_running - 1

\* A slip: the jobs already in the real queue are not subtracted.
n_jobs_to_move_all(lim, n_running) == lim

\* Line 234
n_jobs_to_move(lim, n_running) == lim - n_running

\* Lines 239-252: sbatch every moved job in order. The fail_at-th sbatch
\* prints no job id (the controller is unreachable), so that int() raises
\* and the loop ends; fail_at = 0 means every sbatch succeeds.
\* The real queue gives every submission an id of its own: here the k-th
\* sbatch of job j (k = 0, 1, ...) gets j + 1 + k * |JobIds|.
SlurmId(job, k) == job + 1 + k * Cardinality(JobIds)

RECURSIVE SbatchFrom(_, _, _, _)
SbatchFrom(q, jobs, i, fail_at) ==
    IF i > Len(jobs) THEN q
    ELSE IF i = fail_at THEN [q EXCEPT !.ret = "ValueError:sbatch"]
    ELSE LET job == jobs[i]
             id == SlurmId(job, q.nsb[job])
         IN SbatchFrom([q EXCEPT !.sid[job] = id,
                                 !.act = q.act \cup {id},
                                 !.nsb[job] = q.nsb[job] + 1],
                       jobs, i + 1, fail_at)

\* Lines 232-252
Admit(q, lim, n_running, fail_at) ==
    IF n_running < lim
    THEN LET n == n_jobs_to_move(lim, n_running)
             jobs_to_move == Take(q.pq, n)
         IN SbatchFrom([q EXCEPT !.pq = Drop(q.pq, n),
                                 !.sq = q.sq \o jobs_to_move],
                       jobs_to_move, 1, fail_at)
    ELSE q

\* update(), applied to q with queue_len_lim lim.
\* w is what the call meets (see World below).
Update(q, lim, w) ==
    LET parsed == ParseJobIds(SqueueTokens(w.reachable, q.act))
        running_slurm_job_ids == parsed.ids
        n_running_slurm_jobs == Cardinality(running_slurm_job_ids)
        c == ClassifyFrom(q, running_slurm_job_ids, w.files, 1)
    IN IF parsed.raised THEN [q EXCEPT !.ret = "ValueError:squeue"]
       ELSE IF c.ret # "ok" THEN c
       ELSE Admit([c EXCEPT !.sq = KeepRunning(c.sq, c.sid, running_slurm_job_ids)],
                  lim, n_running_slurm_jobs, w.fail_at)

\* The state after a call that left the record r.
Install(r) ==
    /\ slurm_queue' = r.sq
    /\ pre_queue' = r.pq
    /\ status' = r.st
    /\ slurm_job_id' = r.sid
    /\ active' = r.act
    /\ n_sbatch' = r.nsb
    /\ UNCHANGED outside_call

\* What the file system may hold when update is called: a choice of files
\* for every job of the real queue that squeue no longer lists (the only
\* jobs has_failed is called for).
NoFiles == [j \in JobIds |-> {}]

FileSystems(sq, sid, act) ==
    LET gone == {j \in Range(sq) : sid[j] \notin act}
    IN {[j \in JobIds |-> IF j \in gone THEN g[j] ELSE {}] :
            g \in [gone -> OutfileChoices]}

\* What a call of update meets: whether squeue reaches the controller, the
\* files glob finds, and which sbatch, if any, fails (0: none). update
\* calls sbatch at most n_sbatch_max times.
World(reachable, files, fail_at) ==
    [reachable |-> reachable, files |-> files, fail_at |-> fail_at]

Worlds(sq, sid, act, n_sbatch_max) ==
    {World(FALSE, NoFiles, 0)} \cup
    {World(TRUE, f, k) : f \in FileSystems(sq, sid, act), k \in 0 .. n_sbatch_max}

\* The worlds in which nothing fails: squeue and sbatch reach the controller
\* and every job that left the real queue wrote a file.
GoodWorlds(sq, sid, act) ==
    {w \in Worlds(sq, sid, act, 0) :
        /\ w.reachable
        /\ \A j \in Range(sq) : sid[j] \notin act => w.files[j] # {}}

\* _update_log: one line for every attribute of the queue (the lists print
\* their jobs, and a job prints its ids and its status).
Snapshot(sq, pq, avail, lim, st, sid) ==
    [slurm_queue |-> sq, pre_queue |-> pq, available_virt_job_id |-> avail,
     queue_len_lim |-> lim,
     jobs |-> [j \in Range(sq) \cup Range(pq) |->
                  [slurm_job_id |-> sid[j], status |-> st[j]]]]

\* The record of a call: the operation and how it ended ("ok" or the
\* exception it raised).
Call(op, ret) == [op |-> op, ret |-> ret]

\* The run_files lists as the classes declare them: SimulationRunner's is
\* empty and Leg declares none of its own, so that Leg.run_files is the
\* same list object. Stage is not part of this code base; it stands for a
\* subclass that declares a list of its own, here with one pattern.
ClassRunFiles ==
    [SimulationRunner |-> <<>>, Stage |-> << <<"*", ".", "d", "a", "t">> >>]

\* No directory is looked at, and no clean() was called.
NoClean ==
    /\ run_files = ClassRunFiles
    /\ dir_files = <<>>

\* No run tree: no input files, no pickle, no node, nothing to analyse.
NoRunTree ==
    /\ takes_update_paths = FALSE
    /\ input_files = [d \in {"base/input", "alt/input"} |-> {}]
    /\ pkl = [c \in {"SimulationRunner", "Leg"} |-> <<>>]
    /\ obj = <<>>
    /\ run_call = [op |-> "none", ret |-> "ok"]
    /\ node = <<>>
    /\ analysed = <<>>
    /\ wait_pc = "idle"
    /\ NoClean

(* ------------------------------ actions ------------------------------- *)
\* VirtualQueue.__init__ with a queue_len_lim, and an empty real queue.
Init ==
    /\ slurm_queue = <<>>
    /\ pre_queue = <<>>
    /\ available_virt_job_id = 0
    /\ queue_len_lim \in 0 .. MaxLim
    /\ status = [j \in JobIds |-> "NONE"]
    /\ slurm_job_id = [j \in JobIds |-> None]
    /\ active = {}
    /\ n_sbatch = [j \in JobIds |-> 0]
    /\ scancelled = {}
    /\ last_call = Call("init", "ok")
    /\ log = <<Snapshot(<<>>, <<>>, 0, queue_len_lim, status, slurm_job_id)>>
    /\ NoRunTree
    /\ pc = [t \in Threads |-> "idle"]
    /\ t_running_ids = [t \in Threads |-> {}]
    /\ t_n_jobs_to_move = [t \in Threads |-> 0]
    /\ t_jobs_to_move = [t \in Threads |-> <<>>]

\* update(), called by the user of the queue, in the world w.
UpdateIn(w) ==
    LET r == Update(Q, queue_len_lim, w) IN
    /\ Install(r)
    /\ last_call' = Call("update", r.ret)
    /\ UNCHANGED <<available_virt_job_id, queue_len_lim, scancelled>>

\* A slip: the new job goes to the front of the pre-queue.
SubmitInFront(w) ==
    LET virtual_job_id == available_virt_job_id
        q1 == [Q EXCEPT !.st[virtual_job_id] = "QUEUED",
                        !.pq = <<virtual_job_id>> \o pre_queue]
        r == Update(q1, queue_len_lim, w)
    IN /\ available_virt_job_id' = available_virt_job_id + 1
       /\ Install(r)
       /\ last_call' = Call("submit", r.ret)
       /\ UNCHANGED <<queue_len_lim, scancelled>>

\* A slip: submit that takes the id and puts off line 187 until update has
\* returned, so that a submit whose update raises leaves the id available.
SubmitLateId(w) ==
    LET virtual_job_id == available_virt_job_id
        q1 == [Q EXCEPT !.st[virtual_job_id] = "QUEUED",
                        !.pq = Append(pre_queue, virtual_job_id)]
        r == Update(q1, queue_len_lim, w)
    IN /\ available_virt_job_id' =
              IF r.ret = "ok" THEN available_virt_job_id + 1
                              ELSE available_virt_job_id
       /\ Install(r)
       /\ last_call' = Call("submit", r.ret)
       /\ UNCHANGED <<queue_len_lim, scancelled>>

\* submit(command, slurm_file_base) in the world w.
SubmitIn(w) ==
    LET virtual_job_id == available_virt_job_id
        q1 == [Q EXCEPT !.st[virtual_job_id] = "QUEUED",
                        !.pq = Append(pre_queue, virtual_job_id)]
        r == Update(q1, queue_len_lim, w)
    IN /\ available_virt_job_id' = available_virt_job_id + 1
       /\ Install(r)
       /\ last_call' = Call("submit", r.ret)
       /\ UNCHANGED <<queue_len_lim, scancelled>>

\* The most jobs an update that starts with n_pending jobs in the pre-queue
\* can move: the free places of the real queue as squeue shows it.
MostMoved(n_pending) ==
    LET free == queue_len_lim - Cardinality(active)
    IN IF free < 0 THEN 0 ELSE Min(n_pending, free)

UpdateCall ==
    \E w \in Worlds(slurm_queue, slurm_job_id, active, MostMoved(Len(pre_queue))) :
        UpdateIn(w)

Submit ==
    /\ available_virt_job_id < MaxJobs
    /\ \E w \in Worlds(slurm_queue, slurm_job_id, active,
                         MostMoved(Len(pre_queue) + 1)) :
        SubmitIn(w)

\* A slip: kill without line 199, the only line that raises for a job the
\* queue does not hold.
KillNoCheck(job) ==
    /\ job < available_virt_job_id
    /\ IF job \in Range(slurm_queue)
       THEN /\ slurm_queue' = Remove(slurm_queue, job)
            /\ active' = active \ {slurm_job_id[job]}
            /\ scancelled' = scancelled \cup {slurm_job_id[job]}
            /\ UNCHANGED pre_queue
       ELSE /\ pre_queue' = Remove(pre_queue, job)
            /\ UNCHANGED <<slurm_queue, active, scancelled>>
    /\ status' = [status EXCEPT ![job] = "KILLED"]
    /\ last_call' = Call("kill", "ok")
    /\ UNCHANGED <<available_virt_job_id, queue_len_lim, slurm_job_id, n_sbatch>>
    /\ UNCHANGED outside_call

\* A slip: kill without line 203, the scancel of a job of the real queue.
KillNoScancel(job) ==
    /\ job < available_virt_job_id
    /\ UNCHANGED outside_call
    /\ IF job \notin Range(queue)
       THEN /\ last_call' = Call("kill", "ValueError:remove")
            /\ UNCHANGED <<qvars, envvars, n_sbatch, scancelled>>
       ELSE /\ IF job \in Range(slurm_queue)
               THEN /\ slurm_queue' = Remove(slurm_queue, job)
                    /\ UNCHANGED <<pre_queue, active, scancelled>>
               ELSE /\ pre_queue' = Remove(pre_queue, job)
                    /\ UNCHANGED <<slurm_queue, active, scancelled>>
            /\ status' = [status EXCEPT ![job] = "KILLED"]
            /\ last_call' = Call("kill", "ok")
            /\ UNCHANGED <<available_virt_job_id, queue_len_lim, slurm_job_id,
                           n_sbatch>>

\* kill(job), for any job this queue created.
Kill(job) ==
    /\ job < available_virt_job_id
    /\ UNCHANGED outside_call
    /\ IF job \notin Range(queue)
       THEN \* self.queue.remove(job) raises ValueError
            /\ last_call' = Call("kill", "ValueError:remove")
            /\ UNCHANGED <<qvars, envvars, n_sbatch, scancelled>>
       ELSE /\ IF job \in Range(slurm_queue)
               THEN /\ slurm_queue' = Remove(slurm_queue, job)
                    /\ active' = active \ {slurm_job_id[job]}
                    /\ scancelled' = scancelled \cup {slurm_job_id[job]}
                    /\ UNCHANGED pre_queue
               ELSE /\ pre_queue' = Remove(pre_queue, job)
                    /\ UNCHANGED <<slurm_queue, active, scancelled>>
            /\ status' = [status EXCEPT ![job] = "KILLED"]
            /\ last_call' = Call("kill", "ok")
            /\ UNCHANGED <<available_virt_job_id, queue_len_lim, slurm_job_id,
                           n_sbatch>>

\* The real queue: a job of this queue ends (or is cancelled from outside).
JobLeaves(job) ==
    /\ slurm_job_id[job] \in active
    /\ job \in Range(slurm_queue)
    /\ active' = active \ {slurm_job_id[job]}
    /\ last_call' = Call("env", "ok")
    /\ UNCHANGED <<qvars, n_sbatch, scancelled, outside_call>>

\* The real queue: the user submits a job by other means.
ForeignSubmit(id) ==
    /\ id \notin active
    /\ active' = active \cup {id}
    /\ last_call' = Call("env", "ok")
    /\ UNCHANGED <<qvars, n_sbatch, scancelled, outside_call>>

\* The real queue: such a job ends.
ForeignLeaves(id) ==
    /\ id \in active
    /\ active' = active \ {id}
    /\ last_call' = Call("env", "ok")
    /\ UNCHANGED <<qvars, n_sbatch, scancelled, outside_call>>

Next ==
    \/ UpdateCall
    \/ Submit
    \/ \E job \in JobIds : Kill(job)
    \/ \E job \in JobIds : JobLeaves(job)
    \/ \E id \in ForeignIds : ForeignSubmit(id)
    \/ \E id \in ForeignIds : ForeignLeaves(id)

Spec == Init /\ [][Next]_vars

(* --------------- the queue where nothing outside fails ---------------- *)
\* The same queue with up to FifoJobs jobs, where squeue and sbatch reach
\* the controller, every job that ran wrote a file and the user has no
\* other jobs.
UpdateGood ==
    \E w \in GoodWorlds(slurm_queue, slurm_job_id, active) : UpdateIn(w)

SubmitGood ==
    /\ available_virt_job_id < FifoJobs
    /\ \E w \in GoodWorlds(slurm_queue, slurm_job_id, active) : SubmitIn(w)

NextFifo ==
    \/ UpdateGood
    \/ SubmitGood
    \/ \E job \in JobIds : Kill(job)
    \/ \E job \in JobIds : JobLeaves(job)

SpecFifo == Init /\ [][NextFifo]_vars

(* ------------- two threads in update() on the same queue -------------- *)
\* VirtualQueue holds no lock, so a thread in update() can lose the
\* interpreter between any two lines (and does, while squeue, sbatch or a
\* file read blocks). Each action below is one run of lines of update() by
\* thread t. The scheduler is reachable here.
Goto(t, line) == pc' = [pc EXCEPT ![t] = line]

\* The thread leaves update(): its locals are gone.
Leave(t) ==
    /\ Goto(t, "idle")
    /\ t_running_ids' = [t_running_ids EXCEPT ![t] = {}]
    /\ t_n_jobs_to_move' = [t_n_jobs_to_move EXCEPT ![t] = 0]
    /\ t_jobs_to_move' = [t_jobs_to_move EXCEPT ![t] = <<>>]

\* Thread t calls update().
ThreadCallsUpdate(t) ==
    /\ pc[t] = "idle"
    /\ Goto(t, "213")
    /\ UNCHANGED <<qvars, envvars, histvars, log, runvars,
                   t_running_ids, t_n_jobs_to_move, t_jobs_to_move>>

\* Thread t calls submit(): lines 185-191, then update().
ThreadCallsSubmit(t) ==
    /\ pc[t] = "idle"
    /\ available_virt_job_id < ConcJobs
    /\ status' = [status EXCEPT ![available_virt_job_id] = "QUEUED"]
    /\ pre_queue' = Append(pre_queue, available_virt_job_id)
    /\ available_virt_job_id' = available_virt_job_id + 1
    /\ Goto(t, "213")
    /\ UNCHANGED <<slurm_queue, queue_len_lim, slurm_job_id, envvars, histvars,
                   log, runvars,
                   t_running_ids, t_n_jobs_to_move, t_jobs_to_move>>

\* Lines 213-219: squeue.
ThreadPolls(t) ==
    /\ pc[t] = "213"
    /\ t_running_ids' = [t_running_ids EXCEPT
                         ![t] = ParseJobIds(SqueueTokens(TRUE, active)).ids]
    /\ Goto(t, "221")
    /\ UNCHANGED <<qvars, envvars, histvars, log, runvars,
                   t_n_jobs_to_move, t_jobs_to_move>>

\* Lines 221-227: the status loop, with the files glob finds; has_failed
\* raises out of update() when a job it looks at has no file.
ThreadClassifies(t) ==
    /\ pc[t] = "221"
    /\ \E files \in FileSystems(slurm_queue, slurm_job_id, t_running_ids[t]) :
          LET c == ClassifyFrom(Q, t_running_ids[t], files, 1) IN
          /\ status' = c.st
          /\ IF c.ret = "ok"
             THEN /\ Goto(t, "229")
                  /\ UNCHANGED <<t_running_ids, t_n_jobs_to_move, t_jobs_to_move>>
             ELSE Leave(t)
    /\ UNCHANGED <<slurm_queue, pre_queue, slurm_job_id, envvars, n_sbatch,
                   outside_thread>>

\* Line 229
ThreadFilters(t) ==
    /\ pc[t] = "229"
    /\ slurm_queue' = KeepRunning(slurm_queue, slurm_job_id, t_running_ids[t])
    /\ Goto(t, "232")
    /\ UNCHANGED <<pre_queue, status, slurm_job_id, envvars, n_sbatch,
                   outside_thread, t_running_ids, t_n_jobs_to_move, t_jobs_to_move>>

\* Lines 232-235: read the front of the pre-queue, or return.
ThreadSlices(t) ==
    /\ pc[t] = "232"
    /\ IF Cardinality(t_running_ids[t]) < queue_len_lim
       THEN LET n == n_jobs_to_move(queue_len_lim, Cardinality(t_running_ids[t])) IN
            /\ t_n_jobs_to_move' = [t_n_jobs_to_move EXCEPT ![t] = n]
            /\ t_jobs_to_move' = [t_jobs_to_move EXCEPT ![t] = Take(pre_queue, n)]
            /\ Goto(t, "236")
            /\ UNCHANGED t_running_ids
       ELSE Leave(t)
    /\ UNCHANGED <<qvars, envvars, histvars, log, runvars>>

\* Line 236
ThreadCutsPreQueue(t) ==
    /\ pc[t] = "236"
    /\ pre_queue' = Drop(pre_queue, t_n_jobs_to_move[t])
    /\ Goto(t, "237")
    /\ UNCHANGED <<slurm_queue, status, slurm_job_id, envvars, n_sbatch,
                   outside_thread, t_running_ids, t_n_jobs_to_move, t_jobs_to_move>>

\* Line 237
ThreadExtendsSlurmQueue(t) ==
    /\ pc[t] = "237"
    /\ slurm_queue' = slurm_queue \o t_jobs_to_move[t]
    /\ Goto(t, "239")
    /\ UNCHANGED <<pre_queue, status, slurm_job_id, envvars, n_sbatch,
                   outside_thread, t_running_ids, t_n_jobs_to_move, t_jobs_to_move>>

\* Lines 239-252: sbatch for the next job of jobs_to_move, or return.
ThreadSbatches(t) ==
    /\ pc[t] = "239"
    /\ IF t_jobs_to_move[t] = <<>>
       THEN Leave(t) /\ UNCHANGED <<slurm_job_id, active, n_sbatch>>
       ELSE LET job == Head(t_jobs_to_move[t])
                id == SlurmId(job, n_sbatch[job])
            IN /\ slurm_job_id' = [slurm_job_id EXCEPT ![job] = id]
               /\ active' = active \cup {id}
               /\ n_sbatch' = [n_sbatch EXCEPT ![job] = n_sbatch[job] + 1]
               /\ t_jobs_to_move' = [t_jobs_to_move EXCEPT ![t] = Tail(t_jobs_to_move[t])]
               /\ UNCHANGED <<pc, t_running_ids, t_n_jobs_to_move>>
    /\ UNCHANGED <<slurm_queue, pre_queue, status, outside_thread>>

\* The real queue: a job ends while the threads run.
JobEnds(job) ==
    /\ slurm_job_id[job] \in active
    /\ active' = active \ {slurm_job_id[job]}
    /\ UNCHANGED <<qvars, histvars, log, runvars, thrvars>>

NextConc ==
    \/ \E t \in Threads : ThreadCallsUpdate(t)
    \/ \E t \in Threads : ThreadCallsSubmit(t)
    \/ \E t \in Threads : ThreadPolls(t)
    \/ \E t \in Threads : ThreadClassifies(t)
    \/ \E t \in Threads : ThreadFilters(t)
    \/ \E t \in Threads : ThreadSlices(t)
    \/ \E t \in Threads : ThreadCutsPreQueue(t)
    \/ \E t \in Threads : ThreadExtendsSlurmQueue(t)
    \/ \E t \in Threads : ThreadSbatches(t)
    \/ \E job \in JobIds : JobEnds(job)

SpecConc == Init /\ [][NextConc]_vars

(* ============================ the run tree ============================ *)
(* A node is its __dict__: a record with a field for every attribute set *)
(* so far (the leading underscore of _input_dir, _output_dir,            *)
(* _stream_log_level, _sub_sim_runners and _running is left out; the     *)
(* logger is not modelled). One base directory, "base", is modelled.     *)

\* Largest ensemble_size a node is constructed with.
MaxEnsemble == 2

LegType == {"BOUND", "FREE"}

\* PreparationStage, in the order of its values 1..5.
PreparationStage ==
    <<"STRUCTURES_ONLY", "PARAMETERISED", "SOLVATED", "MINIMISED",
      "PREEQUILIBRATED">>

file_suffix(prep_stage) ==
    CASE prep_stage = "STRUCTURES_ONLY" -> ""
      [] prep_stage = "PARAMETERISED" -> "_param"
      [] prep_stage = "SOLVATED" -> "_solv"
      [] prep_stage = "MINIMISED" -> "_min"
      [] prep_stage = "PREEQUILIBRATED" -> "_preequil"

\* A file name: f"{stem}{suffix}.{type}".
InputFile(stem, suffix, type) == [stem |-> stem, suffix |-> suffix, type |-> type]

\* leg_type.name.lower()
lower(leg_type) == IF leg_type = "BOUND" THEN "bound" ELSE "free"

get_simulation_input_files(prep_stage, leg_type) ==
    IF prep_stage = "STRUCTURES_ONLY"
    THEN IF leg_type = "BOUND"
         THEN {InputFile("protein", "", "pdb"), InputFile("ligand", "", "sdf")}
         ELSE {InputFile("ligand", "", "sdf")}
    ELSE {InputFile(lower(leg_type), file_suffix(prep_stage), file_type) :
              file_type \in {"prm7", "rst7"}}

required_input_files(leg_type, prep_stage) ==
    {InputFile("run_somd", "", "sh"), InputFile("template_config", "", "cfg")}
        \cup get_simulation_input_files(prep_stage, leg_type)

required_stages ==
    [leg_type \in LegType |->
        IF leg_type = "BOUND" THEN <<"RESTRAIN", "DISCHARGE", "VANISH">>
                              ELSE <<"DISCHARGE", "VANISH">>]

\* setattr for every field of attrs.
SetAttrs(self, attrs) == attrs @@ self

\* _pickable_dict: the __dict__; a node of the model holds no Thread and no
\* attribute that is itself a SimulationRunner.
pickable_dict(self) == self

\* _dump: write <class name>.pkl into the base directory (the list of
\* sub-runners is empty wherever the model dumps).
dump(disk, cls, self) == [disk EXCEPT ![cls] = <<pickable_dict(self)>>]

\* _load: self.__dict__ = pickle.load(...), then loaded_from_pickle = True.
load(disk, cls) == SetAttrs(disk[cls][1], [loaded_from_pickle |-> TRUE])

\* The outcome of a constructor: the object as far as it was built, the
\* base directory's pickles and how the call ended.
Built(self, disk, ret) == [self |-> self, pkl |-> disk, ret |-> ret]

\* A slip: SimulationRunner.__init__ that checks dg_multiplier after _dump.
SimulationRunnerInitDumpFirst(self, cls, a, disk) ==
    LET s1 == SetAttrs(self,
                 [base_dir |-> "base",
                  input_dir |-> IF a.input_dir = "None" THEN "base/input"
                                                        ELSE a.input_dir,
                  output_dir |-> IF a.output_dir = "None" THEN "base/output"
                                                          ELSE a.output_dir,
                  loaded_from_pickle |-> FALSE])
    IN IF disk[cls] # <<>>
       THEN Built(load(disk, cls), disk, "ok")
       ELSE LET s3 == SetAttrs(s1, [sub_sim_runners |-> <<>>,
                                    dg_multiplier |-> a.dg_multiplier,
                                    ensemble_size |-> a.ensemble_size,
                                    stream_log_level |-> a.stream_log_level])
            IN IF a.dg_multiplier \notin {-1, 1}
               THEN Built(s3, dump(disk, cls, s3), "ValueError")
               ELSE Built(s3, dump(disk, cls, s3), "ok")

\* A slip: SimulationRunner.__init__ that loads the pickle and then goes on
\* to register the ensemble size and the log level it was called with.
SimulationRunnerInitKeepsArgs(self, cls, a, disk) ==
    LET s1 == SetAttrs(self,
                 [base_dir |-> "base",
                  input_dir |-> IF a.input_dir = "None" THEN "base/input"
                                                        ELSE a.input_dir,
                  output_dir |-> IF a.output_dir = "None" THEN "base/output"
                                                          ELSE a.output_dir,
                  loaded_from_pickle |-> FALSE])
    IN IF disk[cls] # <<>>
       THEN Built(SetAttrs(load(disk, cls),
                           [ensemble_size |-> a.ensemble_size,
                            stream_log_level |-> a.stream_log_level]),
                  disk, "ok")
       ELSE LET s2 == SetAttrs(s1, [sub_sim_runners |-> <<>>])
            IN IF a.dg_multiplier \notin {-1, 1}
               THEN Built(s2, disk, "ValueError")
               ELSE LET s3 == SetAttrs(s2,
                                  [dg_multiplier |-> a.dg_multiplier,
                                   ensemble_size |-> a.ensemble_size,
                                   stream_log_level |-> a.stream_log_level])
                    IN Built(s3, dump(disk, cls, s3), "ok")

\* SimulationRunner.__init__, run on the object self of class cls with the
\* arguments a and the pickles disk of the base directory.
SimulationRunnerInit(self, cls, a, disk) ==
    LET s1 == SetAttrs(self,
                 [base_dir |-> "base",
                  input_dir |-> IF a.input_dir = "None" THEN "base/input"
                                                        ELSE a.input_dir,
                  output_dir |-> IF a.output_dir = "None" THEN "base/output"
                                                          ELSE a.output_dir,
                  loaded_from_pickle |-> FALSE])
    IN IF disk[cls] # <<>>
       THEN Built(load(disk, cls), disk, "ok")
       ELSE LET s2 == SetAttrs(s1, [sub_sim_runners |-> <<>>])
            IN IF a.dg_multiplier \notin {-1, 1}
               THEN Built(s2, disk, "ValueError")
               ELSE LET s3 == SetAttrs(s2,
                                  [dg_multiplier |-> a.dg_multiplier,
                                   ensemble_size |-> a.ensemble_size,
                                   stream_log_level |-> a.stream_log_level])
                    IN Built(s3, dump(disk, cls, s3), "ok")

\* A slip: _validate_input that keeps the first stage it finds complete
\* looking from STRUCTURES_ONLY up.
ValidateInputForwards(self, present, i) ==
    LET complete == {k \in 1 .. i :
                        required_input_files(self.leg_type, PreparationStage[k])
                            \subseteq present}
    IN IF complete = {} THEN "ValueError"
       ELSE PreparationStage[CHOOSE k \in complete :
                                 \A m \in complete : k <= m]

\* Leg._validate_input: the most advanced preparation stage all of whose
\* required files are in the input directory, looking from stage i down;
\* "ValueError" if there is none.
RECURSIVE validate_input(_, _, _)
validate_input(self, present, i) ==
    IF i = 0 THEN "ValueError"
    ELSE IF required_input_files(self.leg_type, PreparationStage[i]) \subseteq present
         THEN PreparationStage[i]
         ELSE validate_input(self, present, i - 1)

\* What Leg.__init__ passes on to SimulationRunner.__init__ (lines 130-134).
SuperArgs(a) ==
    [input_dir |-> a.input_dir, output_dir |-> "None",
     stream_log_level |-> a.stream_log_level, dg_multiplier |-> 1,
     ensemble_size |-> a.ensemble_size]

\* Leg.__init__ with the arguments a, the input directories present and the
\* pickles disk. takes: whether the SimulationRunner.__init__ it runs takes
\* the keyword update_paths (line 134).
LegInit(a, present, disk, takes) ==
    LET self0 == [leg_type |-> a.leg_type]
    IN IF ~takes
       THEN Built(self0, disk, "TypeError")
       ELSE
         LET r == SimulationRunnerInit(self0, "Leg", SuperArgs(a), disk)
         IN IF r.ret # "ok" \/ r.self.loaded_from_pickle
            THEN r
            ELSE
              LET s1 == SetAttrs(r.self,
                           [stage_types |-> required_stages[a.leg_type],
                            block_size |-> a.block_size,
                            equil_detection |-> a.equil_detection,
                            gradient_threshold |-> a.gradient_threshold,
                            running |-> FALSE])
                  s2 == IF s1.leg_type = "BOUND"
                        THEN SetAttrs(s1, [dg_multiplier |-> -1])
                        ELSE s1
                  found == validate_input(s2, present[s2.input_dir],
                                          Len(PreparationStage))
              IN IF found = "ValueError"
                 THEN Built(s2, r.pkl, "ValueError")
                 ELSE LET s3 == SetAttrs(s2, [prep_stage |-> found])
                      IN Built(s3, dump(r.pkl, "Leg", s3), "ok")

\* logging.INFO (the default stream_log_level) and logging.CRITICAL.
INFO == 20
CRITICAL == 50

\* The arguments nodes are constructed with: the defaults, arguments that
\* all differ from the defaults, and each with a dg_multiplier that is
\* neither +1 nor -1.
SimulationRunnerArgs ==
    {[input_dir |-> d[1], output_dir |-> d[2], stream_log_level |-> d[3],
      ensemble_size |-> d[4], dg_multiplier |-> m] :
        d \in {<<"None", "None", INFO, 1>>,
               <<"alt/input", "alt/output", CRITICAL, MaxEnsemble>>},
        m \in {-1, 1, 0, 2}}

LegArgs ==
    {[leg_type |-> t, input_dir |-> d[1], stream_log_level |-> d[2],
      ensemble_size |-> d[3], block_size |-> 1,
      equil_detection |-> "block_gradient", gradient_threshold |-> "None"] :
        t \in LegType,
        d \in {<<"None", INFO, 1>>, <<"alt/input", CRITICAL, MaxEnsemble>>}}

\* What an input directory may hold: nothing, the two files every stage
\* needs, all the files of one stage of one leg type, those but one, and
\* the files of two stages of the bound leg.
InputDirContents ==
    {{}, required_input_files("FREE", "STRUCTURES_ONLY")
            \ {InputFile("ligand", "", "sdf")}}
    \cup {required_input_files(t, PreparationStage[i]) :
              t \in LegType, i \in 1 .. Len(PreparationStage)}
    \cup {required_input_files(t, "PREEQUILIBRATED")
              \ {InputFile(lower(t), "_preequil", "rst7")} : t \in LegType}
    \cup {required_input_files("BOUND", "PARAMETERISED")
              \cup required_input_files("BOUND", "MINIMISED")}

\* The object a constructor call returned, with its class.
Object(cls, self) == <<[cls |-> cls, self |-> self]>>

RunCall(op, ret) == [op |-> op, ret |-> ret]

\* The queue is not used while the run tree is.
NoQueue ==
    /\ slurm_queue = <<>>
    /\ pre_queue = <<>>
    /\ available_virt_job_id = 0
    /\ queue_len_lim = 0
    /\ status = [j \in JobIds |-> "NONE"]
    /\ slurm_job_id = [j \in JobIds |-> None]
    /\ active = {}
    /\ n_sbatch = [j \in JobIds |-> 0]
    /\ scancelled = {}
    /\ last_call = Call("init", "ok")
    /\ log = <<Snapshot(<<>>, <<>>, 0, queue_len_lim, status, slurm_job_id)>>
    /\ pc = [t \in Threads |-> "idle"]
    /\ t_running_ids = [t \in Threads |-> {}]
    /\ t_n_jobs_to_move = [t \in Threads |-> 0]
    /\ t_jobs_to_move = [t \in Threads |-> <<>>]

outside_tree == <<qvars, envvars, histvars, log, thrvars, anvars>>

\* An empty base directory, and input directories with some files.
InitRun ==
    /\ NoQueue
    /\ takes_update_paths \in BOOLEAN
    /\ input_files \in [{"base/input", "alt/input"} -> InputDirContents]
    /\ input_files["alt/input"] \in
           {{}, required_input_files("BOUND", "PARAMETERISED")}
    /\ pkl = [c \in {"SimulationRunner", "Leg"} |-> <<>>]
    /\ obj = <<>>
    /\ run_call = RunCall("none", "ok")
    /\ node = <<>>
    /\ analysed = <<>>
    /\ wait_pc = "idle"
    /\ NoClean

\* SimulationRunner(base_dir="base", ...) with the arguments a.
ConstructSimulationRunner(a) ==
    LET r == SimulationRunnerInit(<<>>, "SimulationRunner", a, pkl)
    IN /\ pkl' = r.pkl
       /\ obj' = IF r.ret = "ok" THEN Object("SimulationRunner", r.self) ELSE <<>>
       /\ run_call' = RunCall("SimulationRunner", r.ret)
       /\ UNCHANGED <<takes_update_paths, input_files, outside_tree>>

\* Leg(leg_type, base_dir="base", ...) with the arguments a.
ConstructLeg(a) ==
    LET r == LegInit(a, input_files, pkl, takes_update_paths)
    IN /\ pkl' = r.pkl
       /\ obj' = IF r.ret = "ok" THEN Object("Leg", r.self) ELSE <<>>
       /\ run_call' = RunCall("Leg", r.ret)
       /\ UNCHANGED <<takes_update_paths, input_files, outside_tree>>

\* node.stream_log_level = value, on a node without sub-runners: the setter
\* sets the attribute and sets up the logging again.
SetStreamLogLevel(value) ==
    /\ obj # <<>>
    /\ obj' = Object(obj[1].cls,
                     SetAttrs(obj[1].self, [stream_log_level |-> value]))
    /\ run_call' = RunCall("stream_log_level", "ok")
    /\ UNCHANGED <<takes_update_paths, input_files, pkl, outside_tree>>

\* node.run() and node.kill() on a node without sub-runners: a line in the
\* log, and a loop over an empty list.
Run ==
    /\ obj # <<>>
    /\ run_call' = RunCall("run", "ok")
    /\ UNCHANGED <<takes_update_paths, input_files, pkl, obj, outside_tree>>

KillNode ==
    /\ obj # <<>>
    /\ run_call' = RunCall("kill", "ok")
    /\ UNCHANGED <<takes_update_paths, input_files, pkl, obj, outside_tree>>

NextRun ==
    \/ \E a \in SimulationRunnerArgs : ConstructSimulationRunner(a)
    \/ \E a \in LegArgs : ConstructLeg(a)
    \/ \E value \in {INFO, CRITICAL} : SetStreamLogLevel(value)
    \/ Run
    \/ KillNode

SpecRun == InitRun /\ [][NextRun]_vars

(* ------------------------------ analyse ------------------------------- *)
(* A node whose sub-runners are set up, and what each sub-runner's own    *)
(* analyse() returns: one free energy and one error for every repeat.     *)
(* An error is a square root: Sqrt(x) stands for the real number whose    *)
(* square is x, so that er**2 and the square root of a sum are exact (the *)
(* rounding of the floats is left out). The lines analyse appends to      *)
(* overall_stats.dat are not modelled.                                    *)

\* Largest number of sub-runners of the node that is analysed.
MaxSubRunners == 2

Sqrt(x) == [sq |-> x]
Square(e) == e.sq

\* What a sub-runner's analyse may return for one repeat: dg and er.
RepeatResults == {<<0, Sqrt(0)>>, <<0 - 1, Sqrt(1)>>, <<2, Sqrt(4)>>}

\* A slip: the sum without the sub-runner's dg_multiplier.
RECURSIVE AnalyseUnsigned(_, _, _, _)
AnalyseUnsigned(subs, i, dg_overall, er_overall) ==
    IF i > Len(subs)
    THEN [dg |-> dg_overall, er |-> er_overall]
    ELSE LET dg == subs[i].dg
             er == subs[i].er
         IN AnalyseUnsigned(subs, i + 1,
                [r \in DOMAIN dg_overall |-> dg_overall[r] + dg[r]],
                [r \in DOMAIN er_overall |->
                    Sqrt(Square(er_overall[r]) + Square(er[r]))])

\* The loop of analyse (lines 191-196) from the i-th sub-runner on.
RECURSIVE AnalyseFrom(_, _, _, _)
AnalyseFrom(subs, i, dg_overall, er_overall) ==
    IF i > Len(subs)
    THEN [dg |-> dg_overall, er |-> er_overall]
    ELSE LET dg == subs[i].dg
             er == subs[i].er
         IN AnalyseFrom(subs, i + 1,
                [r \in DOMAIN dg_overall |->
                    dg_overall[r] + dg[r] * subs[i].dg_multiplier],
                [r \in DOMAIN er_overall |->
                    Sqrt(Square(er_overall[r]) + Square(er[r]))])

\* SimulationRunner.analyse of the node n: the two arrays it returns.
analyse(n) ==
    AnalyseFrom(n.sub_sim_runners, 1,
                [r \in 1 .. n.ensemble_size |-> 0],
                [r \in 1 .. n.ensemble_size |-> Sqrt(0)])

\* The sub-runners a node of the given ensemble size may have.
SubRunners(ensemble_size) ==
    [dg_multiplier : {0 - 1, 1},
     results : [1 .. ensemble_size -> RepeatResults]]

SubRunner(c) ==
    [dg_multiplier |-> c.dg_multiplier,
     dg |-> [r \in DOMAIN c.results |-> c.results[r][1]],
     er |-> [r \in DOMAIN c.results |-> c.results[r][2]]]

Nodes ==
    UNION {[ensemble_size : {e}, dg_multiplier : {0 - 1, 1},
            sub_sim_runners :
                UNION {[1 .. k -> {SubRunner(c) : c \in SubRunners(e)}] :
                           k \in 0 .. MaxSubRunners}] :
               e \in 1 .. MaxEnsemble}

outside_analyse == <<qvars, envvars, histvars, log, thrvars, treevars>>

InitAnalyse ==
    /\ NoQueue
    /\ takes_update_paths = FALSE
    /\ input_files = [d \in {"base/input", "alt/input"} |-> {}]
    /\ pkl = [c \in {"SimulationRunner", "Leg"} |-> <<>>]
    /\ obj = <<>>
    /\ run_call = RunCall("none", "ok")
    /\ node \in {<<n>> : n \in Nodes}
    /\ analysed = <<>>
    /\ wait_pc = "idle"
    /\ NoClean

\* node.analyse()
Analyse ==
    /\ analysed' = <<analyse(node[1])>>
    /\ UNCHANGED <<cleanvars, node, wait_pc, outside_analyse>>

NextAnalyse == Analyse

SpecAnalyse == InitAnalyse /\ [][NextAnalyse]_vars

(* --------------------------- analyse of a tree ------------------------ *)
(* A root whose sub-runners are nodes with sub-runners of their own: the  *)
(* dg, er a sub-runner hands to the loop of analyse is what its own       *)
(* analyse returns (line 192).                                            *)

\* Largest number of leaves of the tree that is analysed.
MaxLeaves == 3

IsNode(c) == "sub_sim_runners" \in DOMAIN c

\* A slip: a node's own dg_multiplier applied to what its analyse returns.
RECURSIVE AnalyseTreeOwnSign(_)
AnalyseTreeOwnSign(n) ==
    LET Result(c) ==
            IF IsNode(c)
            THEN LET r == AnalyseTreeOwnSign(c)
                 IN [dg_multiplier |-> c.dg_multiplier,
                     dg |-> [i \in DOMAIN r.dg |-> r.dg[i] * c.dg_multiplier],
                     er |-> r.er]
            ELSE c
    IN analyse([n EXCEPT !.sub_sim_runners =
                    [i \in DOMAIN @ |-> Result(@[i])]])

\* analyse of the node n with every sub-runner's analyse run in turn.
RECURSIVE AnalyseTree(_)
AnalyseTree(n) ==
    LET Result(c) ==
            IF IsNode(c)
            THEN LET r == AnalyseTree(c)
                 IN [dg_multiplier |-> c.dg_multiplier,
                     dg |-> r.dg, er |-> r.er]
            ELSE c
    IN analyse([n EXCEPT !.sub_sim_runners =
                    [i \in DOMAIN @ |-> Result(@[i])]])

\* What the leaves of a tree return: the same dg, er for every repeat, or
\* another one for the first repeat.
LeafResults(ensemble_size) ==
    {[r \in 1 .. ensemble_size |-> <<2, Sqrt(4)>>],
     [r \in 1 .. ensemble_size |->
         IF r = 1 THEN <<0 - 1, Sqrt(1)>> ELSE <<2, Sqrt(4)>>]}

\* The leaves of a tree: the sign each one has below the root, and what it
\* returns.
Leaves(ensemble_size) ==
    UNION {[1 .. k -> [sign : {0 - 1, 1},
                       results : LeafResults(ensemble_size)]] :
               k \in 1 .. MaxLeaves}

\* The ways to put k leaves into groups: the group of every leaf, every group
\* 1 .. g with a leaf in it.
Groupings(k) ==
    UNION {{f \in [1 .. k -> 1 .. g] : \A j \in 1 .. g : \E i \in 1 .. k : f[i] = j} :
               g \in 1 .. k}

NGroups(f) == IF DOMAIN f = {} THEN 0 ELSE CHOOSE g \in 1 .. Len(f) :
                  /\ \E i \in DOMAIN f : f[i] = g
                  /\ \A i \in DOMAIN f : f[i] <= g

\* The leaves from the i-th on that f puts into the group j, in order.
RECURSIVE Members(_, _, _)
Members(f, j, i) ==
    IF i > Len(f) THEN <<>>
    ELSE IF f[i] = j THEN <<i>> \o Members(f, j, i + 1)
    ELSE Members(f, j, i + 1)

\* The tree over the leaves ls grouped by f into nodes with the multipliers
\* ms: a leaf's own multiplier is such that its sign below the root is
\* ls[i].sign.
Tree(ensemble_size, dg_multiplier, ls, f, ms) ==
    [ensemble_size |-> ensemble_size,
     dg_multiplier |-> dg_multiplier,
     sub_sim_runners |->
        [j \in 1 .. NGroups(f) |->
            LET members == Members(f, j, 1)
            IN [ensemble_size |-> ensemble_size,
                dg_multiplier |-> ms[j],
                sub_sim_runners |->
                    [i \in 1 .. Len(members) |->
                        SubRunner([dg_multiplier |-> ls[members[i]].sign * ms[j],
                                   results |-> ls[members[i]].results])]]]]

InitTree ==
    /\ NoQueue
    /\ takes_update_paths = FALSE
    /\ input_files = [d \in {"base/input", "alt/input"} |-> {}]
    /\ pkl = [c \in {"SimulationRunner", "Leg"} |-> <<>>]
    /\ obj = <<>>
    /\ run_call = RunCall("none", "ok")
    /\ \E m \in {0 - 1, 1}, ls \in Leaves(MaxEnsemble) :
          \E f \in Groupings(Len(ls)) :
             \E ms \in [1 .. NGroups(f) -> {0 - 1, 1}] :
                node = <<Tree(MaxEnsemble, m, ls, f, ms)>>
    /\ analysed = <<>>
    /\ wait_pc = "idle"
    /\ NoClean

\* root.analyse()
AnalyseRoot ==
    /\ analysed' = <<AnalyseTree(node[1])>>
    /\ UNCHANGED <<cleanvars, node, wait_pc, outside_analyse>>

NextTree == AnalyseRoot

SpecTree == InitTree /\ [][NextTree]_vars

(* ------------------- Leg.analyse, Leg.analyse_convergence ------------- *)
(* A leg with stages as its sub-runners. What a stage's analyse and       *)
(* analyse_convergence return is given; a bound leg has one restraint per *)
(* repeat, each with its correction.                                      *)

\* numpy.arange(start, stop, step) for step > 0, here in per cent.
arange(start, stop, step) ==
    [i \in 1 .. ((stop - start) + (step - 1)) \div step |->
        start + (i - 1) * step]

\* fracts = _np.arange(0.05, 1.05, 0.05), in per cent.
fracts == arange(5, 105, 5)

\* restraint.getCorrection().value()
getCorrection(restraint) == restraint.correction

\* The restraints of a bound leg, one per repeat.
Restraints(ensemble_size) ==
    {[r \in 1 .. ensemble_size |-> [correction |-> 0 - 7]],
     [r \in 1 .. ensemble_size |-> [correction |-> 0 - 7 - r]]}

\* What analyse_convergence of a stage may return as dgs: a row of
\* len(fracts) free energies for every repeat.
StageConvergence(ensemble_size) ==
    {[r \in 1 .. ensemble_size |-> [f \in DOMAIN fracts |-> 3]],
     [r \in 1 .. ensemble_size |-> [f \in DOMAIN fracts |-> f - 10 * r]]}

\* The stages a leg of the given ensemble size may have.
Stages(ensemble_size) ==
    UNION {[1 .. k -> {SubRunner(c) @@ [dgs |-> d] :
                           c \in [dg_multiplier : {0 - 1, 1},
                                  results : LeafResults(ensemble_size)],
                           d \in StageConvergence(ensemble_size)}] :
               k \in 1 .. MaxSubRunners}

\* A slip: the correction of the first repeat added to every repeat.
LegAnalyseFirstCorrection(leg) ==
    LET overall == analyse(leg)
    IN IF leg.leg_type = "BOUND"
       THEN [dg |-> [i \in DOMAIN overall.dg |->
                        overall.dg[i] + getCorrection(leg.restraints[1])],
             er |-> overall.er]
       ELSE overall

\* Leg.analyse: the two arrays it returns.
LegAnalyse(leg) ==
    LET overall == analyse(leg)
    IN IF leg.leg_type = "BOUND"
       THEN [dg |-> [i \in DOMAIN overall.dg |->
                        overall.dg[i] + getCorrection(leg.restraints[i])],
             er |-> overall.er]
       ELSE overall

\* The loop of Leg.analyse_convergence (lines 831-835) from the i-th stage.
RECURSIVE ConvergenceFrom(_, _, _)
ConvergenceFrom(subs, i, dg_overall) ==
    IF i > Len(subs)
    THEN dg_overall
    ELSE ConvergenceFrom(subs, i + 1,
            [r \in DOMAIN dg_overall |->
                [f \in DOMAIN dg_overall[r] |->
                    dg_overall[r][f] + subs[i].dgs[r][f] * subs[i].dg_multiplier]])

\* A slip: the restraint correction added at the last fraction only.
LegAnalyseConvergenceLastOnly(leg) ==
    LET dg_overall ==
            ConvergenceFrom(leg.sub_sim_runners, 1,
                [r \in 1 .. leg.ensemble_size |-> [f \in DOMAIN fracts |-> 0]])
    IN [fracts |-> fracts,
        dg |-> IF leg.leg_type = "BOUND"
               THEN [r \in DOMAIN dg_overall |->
                        [f \in DOMAIN dg_overall[r] |->
                            IF f = Len(fracts)
                            THEN dg_overall[r][f] + getCorrection(leg.restraints[r])
                            ELSE dg_overall[r][f]]]
               ELSE dg_overall]

\* Leg.analyse_convergence: fracts and dg_overall as it returns them.
LegAnalyseConvergence(leg) ==
    LET dg_overall ==
            ConvergenceFrom(leg.sub_sim_runners, 1,
                [r \in 1 .. leg.ensemble_size |-> [f \in DOMAIN fracts |-> 0]])
    IN [fracts |-> fracts,
        dg |-> IF leg.leg_type = "BOUND"
               THEN [r \in DOMAIN dg_overall |->
                        [f \in DOMAIN dg_overall[r] |->
                            dg_overall[r][f] + getCorrection(leg.restraints[r])]]
               ELSE dg_overall]

\* The legs that are analysed: the bound leg with dg_multiplier -1 and its
\* restraints, the free leg with +1 and none.
Legs ==
    UNION {{[leg_type |-> "BOUND", ensemble_size |-> e, dg_multiplier |-> 0 - 1,
             sub_sim_runners |-> st, restraints |-> rs] :
                st \in Stages(e), rs \in Restraints(e)}
           \cup {[leg_type |-> "FREE", ensemble_size |-> e, dg_multiplier |-> 1,
                  sub_sim_runners |-> st] : st \in Stages(e)} :
               e \in 1 .. MaxEnsemble}

InitLegAnalyse ==
    /\ NoQueue
    /\ takes_update_paths = FALSE
    /\ input_files = [d \in {"base/input", "alt/input"} |-> {}]
    /\ pkl = [c \in {"SimulationRunner", "Leg"} |-> <<>>]
    /\ obj = <<>>
    /\ run_call = RunCall("none", "ok")
    /\ node \in {<<leg>> : leg \in Legs}
    /\ analysed = <<>>
    /\ wait_pc = "idle"
    /\ NoClean

\* leg.analyse()
AnalyseLeg ==
    /\ analysed' = <<LegAnalyse(node[1])>>
    /\ UNCHANGED <<cleanvars, node, wait_pc, outside_analyse>>

\* leg.analyse_convergence()
AnalyseLegConvergence ==
    /\ analysed' = <<LegAnalyseConvergence(node[1])>>
    /\ UNCHANGED <<cleanvars, node, wait_pc, outside_analyse>>

NextLegAnalyse ==
    \/ AnalyseLeg
    \/ AnalyseLegConvergence

SpecLegAnalyse == InitLegAnalyse /\ [][NextLegAnalyse]_vars

(* --------- running, tot_simtime, equilibrated, equil_time ------------- *)
(* The four properties of a node are computed from its sub-runners every  *)
(* time they are read (lines 257-282). A leaf has them as values.         *)

\* Python's any, all and sum of a list.
RECURSIVE any(_)
any(s) == IF s = <<>> THEN FALSE ELSE IF Head(s) THEN TRUE ELSE any(Tail(s))

RECURSIVE all(_)
all(s) == IF s = <<>> THEN TRUE ELSE IF Head(s) THEN all(Tail(s)) ELSE FALSE

RECURSIVE sum(_, _)
sum(s, start) == IF s = <<>> THEN start ELSE sum(Tail(s), start + Head(s))

\* A slip: running with all in place of any.
RECURSIVE running_all(_)
running_all(n) ==
    IF IsNode(n)
    THEN all([i \in DOMAIN n.sub_sim_runners |-> running_all(n.sub_sim_runners[i])])
    ELSE n.running

\* SimulationRunner.running
RECURSIVE running(_)
running(n) ==
    IF IsNode(n)
    THEN any([i \in DOMAIN n.sub_sim_runners |-> running(n.sub_sim_runners[i])])
    ELSE n.running

\* SimulationRunner.tot_simtime
RECURSIVE tot_simtime(_)
tot_simtime(n) ==
    IF IsNode(n)
    THEN sum([i \in DOMAIN n.sub_sim_runners |-> tot_simtime(n.sub_sim_runners[i])], 0)
    ELSE n.tot_simtime

\* SimulationRunner.equilibrated
RECURSIVE equilibrated(_)
equilibrated(n) ==
    IF IsNode(n)
    THEN all([i \in DOMAIN n.sub_sim_runners |-> equilibrated(n.sub_sim_runners[i])])
    ELSE n.equilibrated

\* SimulationRunner.equil_time
RECURSIVE equil_time(_)
equil_time(n) ==
    IF IsNode(n)
    THEN sum([i \in DOMAIN n.sub_sim_runners |-> equil_time(n.sub_sim_runners[i])], 0)
    ELSE n.equil_time

\* What a leaf may show: running and not yet equilibrated, stopped and
\* equilibrated, or never run.
LeafStates ==
    {[running |-> TRUE, equilibrated |-> FALSE, tot_simtime |-> 2, equil_time |-> 0],
     [running |-> FALSE, equilibrated |-> TRUE, tot_simtime |-> 5, equil_time |-> 1],
     [running |-> FALSE, equilibrated |-> FALSE, tot_simtime |-> 0, equil_time |-> 0]}

\* The nodes over such leaves, with no sub-runner at all up to
\* MaxSubRunners of them.
NodesOver(subs) ==
    {[sub_sim_runners |-> s] :
        s \in UNION {[1 .. k -> subs] : k \in 0 .. MaxSubRunners}}

Properties(n) ==
    [running |-> running(n), tot_simtime |-> tot_simtime(n),
     equilibrated |-> equilibrated(n), equil_time |-> equil_time(n)]

InitProperties ==
    /\ NoQueue
    /\ takes_update_paths = FALSE
    /\ input_files = [d \in {"base/input", "alt/input"} |-> {}]
    /\ pkl = [c \in {"SimulationRunner", "Leg"} |-> <<>>]
    /\ obj = <<>>
    /\ run_call = RunCall("none", "ok")
    /\ node \in {<<n>> : n \in NodesOver(NodesOver(LeafStates) \cup LeafStates)}
    /\ analysed = <<>>
    /\ wait_pc = "idle"
    /\ NoClean

\* node.running, node.tot_simtime, node.equilibrated and node.equil_time
\* are read.
ReadProperties ==
    /\ analysed' = <<Properties(node[1])>>
    /\ UNCHANGED <<cleanvars, node, wait_pc, outside_analyse>>

NextProperties == ReadProperties

SpecProperties == InitProperties /\ [][NextProperties]_vars

(* ------------------------ run, kill and wait -------------------------- *)
(* A root of nodes whose leaves are simulations that share one            *)
(* VirtualQueue. run, kill, running and wait of a node are lines 153-163  *)
(* and 257-267. The leaf is not part of these files; it is taken from the *)
(* specification: a simulation hands its command to the queue when it is  *)
(* run and keeps the job, its kill goes to the queue's kill for that job, *)
(* and it is running while the queue holds its job.                       *)
(* The scheduler and the file system do not fail here, and the tree is    *)
(* run only while it is not running.                                      *)

\* What a call on the tree works on: the queue with its jobs and the real
\* queue (as in Q), the next virtual id and the ids scancel was run for.
Context ==
    [q |-> Q, avail |-> available_virt_job_id, sc |-> scancelled]

\* VirtualQueue.submit on the context c, in the world w.
SubmitTo(c, w) ==
    LET virtual_job_id == c.avail
        q1 == [c.q EXCEPT !.st[virtual_job_id] = "QUEUED",
                          !.pq = Append(c.q.pq, virtual_job_id)]
    IN [c EXCEPT !.q = Update(q1, queue_len_lim, w), !.avail = c.avail + 1]

\* VirtualQueue.kill(job) on the context c.
KillIn(c, job) ==
    IF job \notin Range(c.q.sq \o c.q.pq)
    THEN [c EXCEPT !.q.ret = "ValueError:remove"]
    ELSE IF job \in Range(c.q.sq)
    THEN [c EXCEPT !.q.sq = Remove(c.q.sq, job),
                   !.q.act = c.q.act \ {c.q.sid[job]},
                   !.sc = c.sc \cup {c.q.sid[job]},
                   !.q.st[job] = "KILLED"]
    ELSE [c EXCEPT !.q.pq = Remove(c.q.pq, job),
                   !.q.st[job] = "KILLED"]

\* A simulation that was never run.
NewSimulation == [job |-> <<>>]

\* simulation.run(): the job the queue returns is kept.
SimulationRun(s, c, w) ==
    [c |-> SubmitTo(c, w), n |-> [s EXCEPT !.job = <<c.avail>>]]

\* simulation.kill()
SimulationKill(s, c) == KillIn(c, s.job[1])

\* simulation.running
SimulationRunning(s, sq, pq) ==
    s.job # <<>> /\ s.job[1] \in Range(sq \o pq)

\* SimulationRunner.run: the loop over _sub_sim_runners from the i-th on,
\* left when a sub-runner raises.
RECURSIVE RunFrom(_, _, _, _)
RunFrom(n, c, i, w) ==
    IF i > Len(n.sub_sim_runners) \/ c.q.ret # "ok"
    THEN [c |-> c, n |-> n]
    ELSE LET sub == n.sub_sim_runners[i]
             r == IF IsNode(sub) THEN RunFrom(sub, c, 1, w)
                                 ELSE SimulationRun(sub, c, w)
         IN RunFrom([n EXCEPT !.sub_sim_runners[i] = r.n], r.c, i + 1, w)

\* SimulationRunner.kill: the loop over _sub_sim_runners from the i-th on,
\* left when a sub-runner raises.
RECURSIVE KillFrom(_, _, _)
KillFrom(n, c, i) ==
    IF i > Len(n.sub_sim_runners) \/ c.q.ret # "ok"
    THEN c
    ELSE LET sub == n.sub_sim_runners[i]
         IN KillFrom(n, IF IsNode(sub) THEN KillFrom(sub, c, 1)
                                     ELSE SimulationKill(sub, c),
                     i + 1)

\* The simulations below a node, in the order of the tree.
RECURSIVE Simulations(_)
RECURSIVE SimulationsFrom(_, _)
SimulationsFrom(subs, i) ==
    IF i > Len(subs) THEN <<>>
    ELSE Simulations(subs[i]) \o SimulationsFrom(subs, i + 1)

Simulations(n) ==
    IF IsNode(n) THEN SimulationsFrom(n.sub_sim_runners, 1) ELSE <<n>>

\* The tree with what every simulation shows as running.
RECURSIVE Shown(_, _, _)
Shown(n, sq, pq) ==
    IF IsNode(n)
    THEN [n EXCEPT !.sub_sim_runners =
             [i \in DOMAIN @ |-> Shown(@[i], sq, pq)]]
    ELSE [running |-> SimulationRunning(n, sq, pq)]

\* The trees that are run: up to MaxLeaves simulations in all, in nodes of
\* one simulation or more below the root.
RunTrees ==
    {[sub_sim_runners |->
         [j \in DOMAIN sizes |->
             [sub_sim_runners |-> [i \in 1 .. sizes[j] |-> NewSimulation]]]] :
        sizes \in {s \in UNION {[1 .. k -> 1 .. MaxLeaves] : k \in 1 .. MaxLeaves} :
                      sum(s, 0) <= MaxLeaves}}

\* The state after a call on the tree that left the context c.
InstallContext(c) ==
    /\ slurm_queue' = c.q.sq
    /\ pre_queue' = c.q.pq
    /\ status' = c.q.st
    /\ slurm_job_id' = c.q.sid
    /\ active' = c.q.act
    /\ n_sbatch' = c.q.nsb
    /\ available_virt_job_id' = c.avail
    /\ scancelled' = c.sc

InitNode ==
    /\ slurm_queue = <<>>
    /\ pre_queue = <<>>
    /\ available_virt_job_id = 0
    /\ queue_len_lim \in 0 .. MaxLim
    /\ status = [j \in JobIds |-> "NONE"]
    /\ slurm_job_id = [j \in JobIds |-> None]
    /\ active = {}
    /\ n_sbatch = [j \in JobIds |-> 0]
    /\ scancelled = {}
    /\ last_call = Call("init", "ok")
    /\ log = <<Snapshot(<<>>, <<>>, 0, queue_len_lim, status, slurm_job_id)>>
    /\ pc = [t \in Threads |-> "idle"]
    /\ t_running_ids = [t \in Threads |-> {}]
    /\ t_n_jobs_to_move = [t \in Threads |-> 0]
    /\ t_jobs_to_move = [t \in Threads |-> <<>>]
    /\ takes_update_paths = FALSE
    /\ input_files = [d \in {"base/input", "alt/input"} |-> {}]
    /\ pkl = [c \in {"SimulationRunner", "Leg"} |-> <<>>]
    /\ obj = <<>>
    /\ run_call = RunCall("none", "ok")
    /\ node \in {<<n>> : n \in RunTrees}
    /\ analysed = <<>>
    /\ wait_pc = "idle"
    /\ NoClean

\* The jobs of the simulations of the tree.
TreeJobs == {s.job[1] : s \in {x \in Range(Simulations(node[1])) : x.job # <<>>}}

\* Whether the root is running, as its property shows it.
RootRunning == running(Shown(node[1], slurm_queue, pre_queue))

\* root.run(...), by a caller that is not inside wait().
RunRoot ==
    /\ wait_pc # "sleep"
    /\ ~RootRunning
    /\ available_virt_job_id + Len(Simulations(node[1])) <= FifoJobs
    /\ \E w \in GoodWorlds(slurm_queue, slurm_job_id, active) :
          LET r == RunFrom(node[1], Context, 1, w) IN
          /\ InstallContext(r.c)
          /\ node' = <<r.n>>
          /\ last_call' = Call("submit", r.c.q.ret)
          /\ run_call' = RunCall("run", r.c.q.ret)
    /\ wait_pc' = "idle"
    /\ UNCHANGED <<cleanvars, queue_len_lim, log, thrvars, analysed,
                   takes_update_paths, input_files, pkl, obj>>

\* root.kill(), once the tree was run and before it is killed, by a
\* caller that is not inside wait().
KillRoot ==
    /\ wait_pc # "sleep"
    /\ TreeJobs # {}
    /\ \A j \in TreeJobs : status[j] # "KILLED"
    /\ LET c == KillFrom(node[1], Context, 1) IN
       /\ InstallContext(c)
       /\ last_call' = Call("kill", c.q.ret)
       /\ run_call' = RunCall("kill", c.q.ret)
    /\ wait_pc' = "idle"
    /\ UNCHANGED <<cleanvars, node, queue_len_lim, log, thrvars, analysed,
                   takes_update_paths, input_files, pkl, obj>>

\* root.wait() is called: _sleep(30).
WaitCalled ==
    /\ wait_pc # "sleep"
    /\ wait_pc' = "sleep"
    /\ run_call' = RunCall("wait", "ok")
    /\ UNCHANGED <<cleanvars, qvars, envvars, histvars, log, thrvars, node, analysed,
                   takes_update_paths, input_files, pkl, obj>>

\* A slip: wait() that returns when the caller first wakes up.
WaitReturnsAtOnce ==
    /\ wait_pc = "sleep"
    /\ wait_pc' = "returned"
    /\ UNCHANGED <<cleanvars, qvars, envvars, histvars, log, thrvars, node, analysed,
                   treevars>>

\* The caller wakes up and reads self.running: it sleeps again, or wait()
\* returns.
WaitPolls ==
    /\ wait_pc = "sleep"
    /\ wait_pc' = IF RootRunning THEN "sleep" ELSE "returned"
    /\ UNCHANGED <<cleanvars, qvars, envvars, histvars, log, thrvars, node, analysed,
                   treevars>>

NextNode ==
    \/ RunRoot
    \/ KillRoot
    \/ WaitCalled
    \/ WaitPolls
    \/ UpdateGood
    \/ \E job \in JobIds : JobLeaves(job)

SpecNode == InitNode /\ [][NextNode]_vars

\* wait() is not left asleep for ever: the caller wakes up every 30 s.
SpecNodeFair == SpecNode /\ WF_vars(WaitPolls)

(* ------------------------------ Leg.setup ----------------------------- *)

\* How many restraints a leg may hold before setup is called on it.
MaxRestraints == 2

\* The steps of the preparation in the order setup tests for them: the k-th
\* is run when prep_stage is the k-th preparation stage.
PreparationSteps ==
    <<"parameterise_input", "solvate_input", "minimise_input",
      "heat_and_preequil_input", "run_ensemble_equilibration">>

\* The properties of Leg by the names the class body leaves them under
\* (lines 158-165): "stages" is the property with the getter only, and
\* stages.setter hands the property that also has the setter to the name of
\* the function it decorates, legs.
LegProperties ==
    [stages |-> [fget |-> TRUE, fset |-> FALSE],
     legs |-> [fget |-> TRUE, fset |-> TRUE]]

\* Leg.default_lambda_values, in thousandths.
default_lambda_values ==
    [leg_type \in LegType |->
        IF leg_type = "BOUND"
        THEN [RESTRAIN |-> <<0, 125, 250, 375, 500, 1000>>,
              DISCHARGE |-> <<0, 143, 286, 429, 571, 714, 857, 1000>>,
              VANISH |-> <<0, 25, 50, 75, 100, 125, 150, 175, 200, 225, 250,
                           275, 300, 325, 350, 375, 400, 425, 450, 475, 500,
                           525, 550, 575, 600, 625, 650, 675, 700, 725, 750,
                           800, 850, 900, 950, 1000>>]
        ELSE [DISCHARGE |-> <<0, 143, 286, 429, 571, 714, 857, 1000>>,
              VANISH |-> <<0, 28, 56, 111, 167, 222, 278, 333, 389, 444, 500,
                           556, 611, 667, 722, 778, 889, 1000>>]]

\* A lambda window as it is constructed: nothing cached about its
\* equilibration.
LamWindow(lam, ensemble_size) ==
    [lam |-> lam, ensemble_size |-> ensemble_size,
     equilibrated |-> FALSE, equil_time |-> None]

\* A slip: an update that keeps the windows it has and makes windows only
\* for the lambda values beyond them.
StageUpdateKeepsWindows(stage) ==
    [stage EXCEPT !.lam_windows =
        [i \in 1 .. Len(stage.lam_vals) |->
            IF i <= Len(stage.lam_windows)
            THEN stage.lam_windows[i]
            ELSE LamWindow(stage.lam_vals[i], stage.ensemble_size)]]

\* Stage.update: the lambda windows are made anew from lam_vals and
\* ensemble_size, one per value and in their order.
StageUpdate(stage) ==
    [stage EXCEPT !.lam_windows =
        [i \in 1 .. Len(stage.lam_vals) |->
            LamWindow(stage.lam_vals[i], stage.ensemble_size)]]

\* A stage as it is constructed: it sets itself up with a window per lambda
\* value.
Stage(stage_type, ensemble_size, lambda_values) ==
    StageUpdate([stage_type |-> stage_type, ensemble_size |-> ensemble_size,
                 lam_vals |-> lambda_values, lam_windows |-> <<>>])

\* A slip: the tests of lines 213-231 as one if / elif chain, so that a call
\* runs the one step that follows the stage the leg is at.
PrepareOneStep(r, k, bad) ==
    LET i == CHOOSE j \in 1 .. Len(PreparationStage) :
                 PreparationStage[j] = r.self.prep_stage
        begun == [r EXCEPT !.steps = Append(@, PreparationSteps[i])]
    IN IF r.ret # "ok" THEN r
       ELSE IF i = bad THEN [begun EXCEPT !.ret = "ThirdPartyError"]
       ELSE IF i < Len(PreparationStage)
       THEN [begun EXCEPT
               !.self = SetAttrs(@, [prep_stage |-> PreparationStage[i + 1]])]
       ELSE begun

\* The tests of lines 213-231 from the k-th on. r: the leg, the input
\* directories, the steps begun and how the call stands; bad: the step that
\* raises if it is run (none for 0).
RECURSIVE Prepare(_, _, _)
Prepare(r, k, bad) ==
    IF k > Len(PreparationStage) \/ r.ret # "ok" THEN r
    ELSE IF r.self.prep_stage # PreparationStage[k] THEN Prepare(r, k + 1, bad)
    ELSE
      LET begun == [r EXCEPT !.steps = Append(@, PreparationSteps[k])]
          e == r.self.ensemble_size
      IN IF k = bad THEN [begun EXCEPT !.ret = "ThirdPartyError"]
         ELSE IF k < Len(PreparationStage)
         THEN \* the step sets prep_stage and saves the system it made to
              \* {base_dir}/input
              Prepare([begun EXCEPT
                         !.self = SetAttrs(@, [prep_stage |-> PreparationStage[k + 1]]),
                         !.input_files["base/input"] =
                             @ \cup get_simulation_input_files(
                                        PreparationStage[k + 1], r.self.leg_type)],
                      k + 1, bad)
         ELSE \* run_ensemble_equilibration: the bound leg keeps the
              \* restraint of each repeat (lines 661-664). A restraint is
              \* told apart by its repeat and by the number of the search
              \* that made it, counted on from those the leg holds.
              LET held == IF "restraints" \in DOMAIN r.self
                          THEN r.self.restraints ELSE <<>>
                  search == 1 + Cardinality({x.search : x \in Range(held)})
              IN Prepare([begun EXCEPT
                            !.self =
                                IF r.self.leg_type # "BOUND" THEN @
                                ELSE SetAttrs(@,
                                       [restraints |->
                                           held \o [i \in 1 .. e |->
                                                       [repeat |-> i,
                                                        search |-> search]]])],
                         k + 1, bad)

\* Leg.setup. present: the files of the input directories; disk: the
\* pickles of the base directory; bad as for Prepare, Len(PreparationSteps)
\* + 1 for write_input_files.
LegSetup(self, use_same_restraints, present, disk, bad) ==
    LET s1 == SetAttrs(self, [stage_input_dirs |-> self.stage_types])
        r0 == [self |-> s1, input_files |-> present, pkl |-> disk,
               steps |-> <<>>, ret |-> "ok"]
        \* line 216: the files of the stage are read from input_dir
        r1 == IF s1.prep_stage = "STRUCTURES_ONLY"
                 \/ get_simulation_input_files(s1.prep_stage, s1.leg_type)
                        \subseteq present[s1.input_dir]
              THEN r0 ELSE [r0 EXCEPT !.ret = "IOError"]
        r2 == Prepare(r1, 1, bad)
    IN IF r2.ret # "ok" THEN r2
       ELSE IF bad = Len(PreparationSteps) + 1
       THEN [r2 EXCEPT !.ret = "CalledProcessError"]
       ELSE
         LET s3 == IF s1.leg_type = "BOUND" /\ use_same_restraints
                   THEN SetAttrs(r2.self,
                           [restraints |-> [i \in 1 .. s1.ensemble_size |->
                                               r2.self.restraints[1]]])
                   ELSE r2.self
         IN IF ~LegProperties["stages"].fset
            THEN [r2 EXCEPT !.self = s3, !.ret = "AttributeError"]
            ELSE LET types == required_stages[s3.leg_type]
                     s4 == SetAttrs(s3,
                              [sub_sim_runners |->
                                  [i \in 1 .. Len(types) |->
                                      Stage(types[i], s3.ensemble_size,
                                            default_lambda_values[s3.leg_type][types[i]])]])
                 IN [r2 EXCEPT !.self = s4,
                               !.pkl = dump(disk, "Leg", s4)]

\* A leg constructed on an input directory that holds the files of one
\* preparation stage.
InitSetup ==
    /\ NoQueue
    /\ takes_update_paths = TRUE
    /\ \E a \in LegArgs, i \in 1 .. Len(PreparationStage) :
          /\ input_files =
                 [d \in {"base/input", "alt/input"} |->
                     IF d = (IF a.input_dir = "None" THEN "base/input"
                                                     ELSE a.input_dir)
                     THEN required_input_files(a.leg_type, PreparationStage[i])
                     ELSE {}]
          /\ LET r == LegInit(a, input_files, [c \in {"SimulationRunner", "Leg"} |-> <<>>],
                              takes_update_paths)
             IN /\ obj = Object("Leg", r.self)
                /\ pkl = r.pkl
    /\ run_call = RunCall("none", "ok")
    /\ node = <<>>
    /\ analysed = <<>>
    /\ wait_pc = "idle"
    /\ NoClean

\* leg.setup(use_same_restraints).
Setup(use_same_restraints, bad) ==
    /\ obj # <<>>
    /\ "restraints" \in DOMAIN obj[1].self
           => Len(obj[1].self.restraints) <= MaxRestraints
    /\ LET r == LegSetup(obj[1].self, use_same_restraints, input_files, pkl, bad)
       IN /\ obj' = Object("Leg", r.self)
          /\ input_files' = r.input_files
          /\ pkl' = r.pkl
          /\ run_call' = [op |-> "setup", ret |-> r.ret, steps |-> r.steps]
    /\ UNCHANGED <<takes_update_paths, outside_tree>>

NextSetup ==
    \E use_same_restraints \in BOOLEAN, bad \in 0 .. Len(PreparationSteps) + 1 :
        Setup(use_same_restraints, bad)

SpecSetup == InitSetup /\ [][NextSetup]_vars

(* ----------------------- Stage.update, Stage.reset --------------------- *)

\* The longest list of lambda values given to a stage.
MaxLamVals == 3

\* A slip: a reset that clears the flag and leaves the time.
StageResetFlagOnly(stage) ==
    [stage EXCEPT !.lam_windows =
        [i \in DOMAIN stage.lam_windows |->
            [stage.lam_windows[i] EXCEPT !.equilibrated = FALSE]]]

\* Stage.reset: every window forgets the equilibration it has cached.
StageReset(stage) ==
    [stage EXCEPT !.lam_windows =
        [i \in DOMAIN stage.lam_windows |->
            [stage.lam_windows[i] EXCEPT !.equilibrated = FALSE,
                                         !.equil_time = None]]]

\* A restrain stage as it was constructed, on one or two lambda values in
\* either order or on the whole grid in ascending order.
InitStage ==
    /\ NoQueue
    /\ takes_update_paths = FALSE
    /\ input_files = [d \in {"base/input", "alt/input"} |-> {}]
    /\ pkl = [c \in {"SimulationRunner", "Leg"} |-> <<>>]
    /\ obj = <<>>
    /\ run_call = RunCall("none", "ok")
    /\ \E e \in {1, MaxEnsemble}, n \in 1 .. MaxLamVals :
          \E vals \in [1 .. n -> 0 .. MaxLamVals - 1] :
              /\ \A i, j \in 1 .. n : i # j => vals[i] # vals[j]
              /\ n <= 2 \/ vals = [i \in 1 .. n |-> i - 1]
              /\ node = <<Stage("RESTRAIN", e, vals)>>
    /\ analysed = <<>>
    /\ wait_pc = "idle"
    /\ NoClean

\* stage.lam_vals = vals; stage.ensemble_size = e.
SetLamValsAndEnsembleSize(vals, e) ==
    /\ node' = <<[node[1] EXCEPT !.lam_vals = vals, !.ensemble_size = e]>>
    /\ run_call' = RunCall("set", "ok")
    /\ UNCHANGED <<cleanvars, analysed, wait_pc, takes_update_paths, input_files, pkl, obj,
                   qvars, envvars, histvars, log, thrvars>>

\* The i-th window works out its equilibration and caches the result:
\* equilibrated after the time t, or not equilibrated for t = None.
CacheEquilibration(i, t) ==
    /\ i \in DOMAIN node[1].lam_windows
    /\ node' = <<[node[1] EXCEPT !.lam_windows[i].equilibrated = (t # None),
                                  !.lam_windows[i].equil_time = t]>>
    /\ run_call' = RunCall("equilibrated", "ok")
    /\ UNCHANGED <<cleanvars, analysed, wait_pc, takes_update_paths, input_files, pkl, obj,
                   qvars, envvars, histvars, log, thrvars>>

\* stage.update().
UpdateStage ==
    /\ node' = <<StageUpdate(node[1])>>
    /\ run_call' = [op |-> "update", ret |-> "ok", self |-> node[1]]
    /\ UNCHANGED <<cleanvars, analysed, wait_pc, takes_update_paths, input_files, pkl, obj,
                   qvars, envvars, histvars, log, thrvars>>

\* stage.reset().
ResetStage ==
    /\ node' = <<StageReset(node[1])>>
    /\ run_call' = [op |-> "reset", ret |-> "ok", self |-> node[1]]
    /\ UNCHANGED <<cleanvars, analysed, wait_pc, takes_update_paths, input_files, pkl, obj,
                   qvars, envvars, histvars, log, thrvars>>

NextStage ==
    \/ \E e \in {1, MaxEnsemble}, n \in 1 .. MaxLamVals :
          \E vals \in [1 .. n -> 0 .. MaxLamVals - 1] :
              /\ \A i, j \in 1 .. n : i # j => vals[i] # vals[j]
              /\ n <= 2 \/ vals = [i \in 1 .. n |-> i - 1]
              /\ SetLamValsAndEnsembleSize(vals, e)
    \/ \E i \in 1 .. MaxLamVals, t \in {None, 1} : CacheEquilibration(i, t)
    \/ UpdateStage
    \/ ResetStage

SpecStage == InitStage /\ [][NextStage]_vars

(* ------------------------------ update_paths --------------------------- *)

\* The longest base directory (in characters) update_paths is called on; an
\* input directory may be two characters longer.
MaxPathLen == 3

\* str.replace(old, new) on a string given as the sequence of its
\* characters: every occurrence of old, found from the left and not
\* overlapping, is replaced; for the empty old, new is put before every
\* character and at the end.
RECURSIVE replace(_, _, _)
replace(s, old, new) ==
    IF old = <<>>
    THEN IF s = <<>> THEN new
         ELSE new \o <<s[1]>> \o replace(Tail(s), old, new)
    ELSE IF Len(s) < Len(old) THEN s
    ELSE IF SubSeq(s, 1, Len(old)) = old
    THEN new \o replace(SubSeq(s, Len(old) + 1, Len(s)), old, new)
    ELSE <<s[1]>> \o replace(Tail(s), old, new)

\* A slip: update_paths that leaves the sub-runners alone.
UpdatePathsOwnOnly(self, i, old_sub_path, new_sub_path, absent) ==
    [self |-> [self EXCEPT
                 !.base_dir = replace(@, old_sub_path, new_sub_path),
                 !.input_dir = replace(@, old_sub_path, new_sub_path),
                 !.output_dir = replace(@, old_sub_path, new_sub_path),
                 !.file_handler =
                     <<[dir |-> replace(self.base_dir, old_sub_path, new_sub_path),
                        name |-> self.cls]>>],
     ret |-> "ok"]

\* SimulationRunner.update_paths: for i = 0 the whole call on self, for
\* i > 0 its loop over _sub_sim_runners from the i-th on. absent: the
\* classes of the nodes whose new base directory does not exist, where
\* logging.FileHandler raises. The result is the node as the call leaves it
\* and how the call ends.
RECURSIVE update_paths(_, _, _, _, _)
update_paths(self, i, old_sub_path, new_sub_path, absent) ==
    IF i = 0
    THEN LET s1 == [self EXCEPT
                      !.base_dir = replace(@, old_sub_path, new_sub_path),
                      !.input_dir = replace(@, old_sub_path, new_sub_path),
                      !.output_dir = replace(@, old_sub_path, new_sub_path)]
         IN \* _set_up_logging: the handlers are removed, then the file
            \* handler is made for f"{base_dir}/{class name}.log"
            IF s1.cls \in absent
            THEN [self |-> [s1 EXCEPT !.file_handler = <<>>],
                  ret |-> "FileNotFoundError"]
            ELSE update_paths([s1 EXCEPT !.file_handler =
                                  <<[dir |-> s1.base_dir, name |-> s1.cls]>>],
                              1, old_sub_path, new_sub_path, absent)
    ELSE IF i > Len(self.sub_sim_runners)
    THEN [self |-> self, ret |-> "ok"]
    ELSE LET r == update_paths(self.sub_sim_runners[i], 0,
                               old_sub_path, new_sub_path, absent)
             s == [self EXCEPT !.sub_sim_runners[i] = r.self]
         IN IF r.ret # "ok" THEN [self |-> s, ret |-> r.ret]
            ELSE update_paths(s, i + 1, old_sub_path, new_sub_path, absent)

\* A node constructed in the base directory b with the default input and
\* output directories, logging to its own file, over the sub-runners subs.
PathNode(cls, b, subs) ==
    [cls |-> cls, base_dir |-> b, input_dir |-> b \o <<"/", "i">>,
     output_dir |-> b \o <<"/", "o">>,
     file_handler |-> <<[dir |-> b, name |-> cls]>>,
     sub_sim_runners |-> subs]

\* A leg in one of three base directories with no stage, a stage, or two
\* stages the first of which has a lambda window.
InitPaths ==
    /\ NoQueue
    /\ takes_update_paths = FALSE
    /\ input_files = [d \in {"base/input", "alt/input"} |-> {}]
    /\ pkl = [c \in {"SimulationRunner", "Leg"} |-> <<>>]
    /\ obj = <<>>
    /\ run_call = RunCall("none", "ok")
    /\ \E b \in {<<"a">>, <<"a", "/", "b">>, <<"b", "a">>}, k \in 0 .. 2 :
          node = <<PathNode("Leg", b,
                      [j \in 1 .. k |->
                          PathNode("Stage", b \o <<"/", IF j = 1 THEN "c" ELSE "d">>,
                              IF j = 1 /\ k = 2
                              THEN <<PathNode("LamWindow",
                                              b \o <<"/", "c", "/", "c">>, <<>>)>>
                              ELSE <<>>)])>>
    /\ analysed = <<>>
    /\ wait_pc = "idle"
    /\ NoClean

\* node.update_paths(old_sub_path, new_sub_path).
UpdatePaths(old_sub_path, new_sub_path, absent) ==
    /\ Len(node[1].base_dir) <= MaxPathLen
    /\ Len(node[1].input_dir) <= MaxPathLen + 2
    /\ LET r == update_paths(node[1], 0, old_sub_path, new_sub_path, absent)
       IN /\ node' = <<r.self>>
          /\ run_call' = [op |-> "update_paths", ret |-> r.ret, self |-> node[1],
                          old_sub_path |-> old_sub_path,
                          new_sub_path |-> new_sub_path]
    /\ UNCHANGED <<cleanvars, analysed, wait_pc, takes_update_paths, input_files, pkl, obj,
                   qvars, envvars, histvars, log, thrvars>>

NextPaths ==
    \E old_sub_path \in {node[1].base_dir, <<"a">>, <<"x">>, <<>>},
       new_sub_path \in {<<"n">>, <<"b">>},
       absent \in {{}, {"Stage"}} :
        UpdatePaths(old_sub_path, new_sub_path, absent)

SpecPaths == InitPaths /\ [][NextPaths]_vars

(* ------------------------ Leg.get_optimal_lam_vals --------------------- *)

\* The largest SEM of a lambda window and the largest delta_sem, in one unit.
MaxSem == 2

\* Twice the integral of the SEMs over lambda up to the i-th window, by the
\* trapezoid rule; the windows are one unit of lambda apart.
RECURSIVE integrated_sems(_, _)
integrated_sems(sems, i) ==
    IF i <= 1 THEN 0
    ELSE integrated_sems(sems, i - 1) + sems[i - 1] + sems[i]

\* A slip: the crossings and both endpoints, each as it is found.
OptimalLamValsAllKept(lam_vals, sems, delta_sem) ==
    LET n == Len(lam_vals)
        S(i) == integrated_sems(sems, i)
        Crossing(t) ==
            LET i == CHOOSE j \in 1 .. n - 1 : S(j) < t /\ t <= S(j + 1)
                D == S(i + 1) - S(i)
            IN [num |-> lam_vals[i] * D + (t - S(i)) * (lam_vals[i + 1] - lam_vals[i]),
                den |-> D]
    IN <<[num |-> lam_vals[1], den |-> 1]>>
       \o [k \in 1 .. (S(n) \div (2 * delta_sem)) |-> Crossing(2 * k * delta_sem)]
       \o <<[num |-> lam_vals[n], den |-> 1]>>

\* The spacing of the lambda values by the integrated SEM: the first and
\* the last lambda value and, between them, the values at which the
\* integrated SEM crosses each multiple of delta_sem, by linear
\* interpolation between the two windows around the crossing; a value found
\* twice is given once. Values are fractions num / den.
calculate_optimal_lam_vals(lam_vals, sems, delta_sem) ==
    LET n == Len(lam_vals)
        S(i) == integrated_sems(sems, i)
        Crossing(t) ==
            LET i == CHOOSE j \in 1 .. n - 1 : S(j) < t /\ t <= S(j + 1)
                D == S(i + 1) - S(i)
            IN [num |-> lam_vals[i] * D + (t - S(i)) * (lam_vals[i + 1] - lam_vals[i]),
                den |-> D]
        found == <<[num |-> lam_vals[1], den |-> 1]>>
                 \o [k \in 1 .. (S(n) \div (2 * delta_sem)) |->
                        Crossing(2 * k * delta_sem)]
                 \o <<[num |-> lam_vals[n], den |-> 1]>>
        New(i) == \A j \in 1 .. i - 1 :
                      found[j].num * found[i].den # found[i].num * found[j].den
        Kept[i \in 0 .. Len(found)] ==
            IF i = 0 THEN <<>>
            ELSE IF New(i) THEN Append(Kept[i - 1], found[i]) ELSE Kept[i - 1]
    IN Kept[Len(found)]

\* Leg.get_optimal_lam_vals. sems: for each stage, the SEM of each of its
\* windows as the short simulations give it. The result is the leg as the
\* call leaves it, the pickles, how the call ends and how many simulations
\* it started.
get_optimal_lam_vals(self, simtime, delta_sem, sems, disk) ==
    \* hasattr(self, "stages"): the getter of the property returns
    \* _sub_sim_runners
    IF ~(LegProperties["stages"].fget /\ "sub_sim_runners" \in DOMAIN self)
    THEN [self |-> self, pkl |-> disk, ret |-> "ValueError", started |-> 0]
    ELSE LET stages == self.sub_sim_runners
             new == [i \in DOMAIN stages |->
                        StageUpdate([stages[i] EXCEPT !.lam_vals =
                            calculate_optimal_lam_vals(@, sems[i], delta_sem)])]
             s1 == [self EXCEPT !.sub_sim_runners = new]
         IN [self |-> s1, pkl |-> dump(disk, "Leg", s1), ret |-> "ok",
             started |-> IF simtime = None THEN 0
                         ELSE sum([i \in DOMAIN stages |->
                                      Len(stages[i].lam_windows)
                                          * stages[i].ensemble_size], 0)]

\* A leg constructed on the files of a preparation that is through, as the
\* constructor leaves it (no stage) or given one or two stages of two or
\* more windows through the setter of legs.
InitOptimal ==
    /\ NoQueue
    /\ takes_update_paths = TRUE
    /\ \E a \in {x \in LegArgs : x.input_dir = "None"}, k \in 0 .. 2,
          n \in 2 .. MaxLamVals :
          /\ input_files =
                 [d \in {"base/input", "alt/input"} |->
                     required_input_files(a.leg_type, "PREEQUILIBRATED")]
          /\ LET r == LegInit(a, input_files,
                              [c \in {"SimulationRunner", "Leg"} |-> <<>>],
                              takes_update_paths)
             IN /\ obj = Object("Leg",
                           [r.self EXCEPT !.sub_sim_runners =
                               [i \in 1 .. k |->
                                   Stage(required_stages["FREE"][i], a.ensemble_size,
                                         [j \in 1 .. (IF i = 1 THEN n ELSE 2) |-> j - 1])]])
                /\ pkl = r.pkl
    /\ run_call = RunCall("none", "ok")
    /\ node = <<>>
    /\ analysed = <<>>
    /\ wait_pc = "idle"
    /\ NoClean

\* leg.get_optimal_lam_vals(simtime, delta_sem), once on a leg.
GetOptimalLamVals(simtime, delta_sem, sems) ==
    /\ run_call.op = "none"
    /\ Len(sems) = Len(obj[1].self.sub_sim_runners)
    /\ \A i \in DOMAIN sems : Len(sems[i]) = Len(obj[1].self.sub_sim_runners[i].lam_vals)
    /\ LET r == get_optimal_lam_vals(obj[1].self, simtime, delta_sem, sems, pkl)
       IN /\ obj' = Object("Leg", r.self)
          /\ pkl' = r.pkl
          /\ run_call' = [op |-> "get_optimal_lam_vals", ret |-> r.ret,
                          started |-> r.started, self |-> obj[1].self,
                          delta_sem |-> delta_sem, sems |-> sems]
    /\ UNCHANGED <<takes_update_paths, input_files, outside_tree>>

NextOptimal ==
    /\ run_call.op = "none"
    /\ LET stages == obj[1].self.sub_sim_runners
           Windows(i) == IF i <= Len(stages) THEN Len(stages[i].lam_vals) ELSE 0
       IN \E simtime \in {None, 1}, delta_sem \in {1, MaxSem},
             sems1 \in [1 .. Windows(1) -> 0 .. MaxSem],
             sems2 \in {[j \in 1 .. Windows(2) |-> v] : v \in {0, MaxSem}} :
              GetOptimalLamVals(simtime, delta_sem,
                                SubSeq(<<sems1, sems2>>, 1, Len(stages)))

SpecOptimal == InitOptimal /\ [][NextOptimal]_vars

(* -------------------------- Leg._validate_input ------------------------ *)
(* A leg constructed on an input directory that holds any combination of  *)
(* the files some stage of one leg type requires.                         *)

\* Every file some preparation stage of the leg type requires.
AllInputFiles(leg_type) ==
    UNION {required_input_files(leg_type, PreparationStage[i]) :
               i \in 1 .. Len(PreparationStage)}

InitValidate ==
    /\ NoQueue
    /\ takes_update_paths \in BOOLEAN
    /\ \E t \in LegType : \E present \in SUBSET AllInputFiles(t) :
           input_files = [d \in {"base/input", "alt/input"} |->
                             IF d = "base/input" THEN present ELSE {}]
    /\ pkl = [c \in {"SimulationRunner", "Leg"} |-> <<>>]
    /\ obj = <<>>
    /\ run_call = RunCall("none", "ok")
    /\ node = <<>>
    /\ analysed = <<>>
    /\ wait_pc = "idle"
    /\ NoClean

NextValidate ==
    \E a \in {x \in LegArgs : x.input_dir = "None"} : ConstructLeg(a)

SpecValidate == InitValidate /\ [][NextValidate]_vars

(* ---------------- the queue under fair scheduling --------------------- *)
(* The queue with a queue_len_lim of at least one, polled again and again, *)
(* where every job the real queue took ends and has written its output    *)
(* file by then, and the user has no other jobs. The controller may fail  *)
(* to answer the first sbatch the queue ever runs, and nothing else fails. *)

\* What update meets: squeue answers; glob finds a file for every job that
\* sbatch gave to the real queue and that left it, and none for a job that
\* was never given to it; the first sbatch may print no job id.
LiveWorlds(sq, sid, act, nsb) ==
    LET gone == {j \in Range(sq) : sid[j] \notin act}
    IN {World(TRUE,
              [j \in JobIds |-> IF j \in gone /\ nsb[j] > 0 THEN g[j] ELSE {}],
              k) :
            g \in [gone -> OutfileChoices \ {{}}],
            k \in IF \A j \in JobIds : nsb[j] = 0 THEN {0, 1} ELSE {0}}

InitLive ==
    /\ Init
    /\ queue_len_lim >= 1

UpdateLive ==
    \E w \in LiveWorlds(slurm_queue, slurm_job_id, active, n_sbatch) :
        UpdateIn(w)

SubmitLive ==
    /\ available_virt_job_id < MaxJobs
    /\ \E w \in LiveWorlds(slurm_queue, slurm_job_id, active, n_sbatch) :
        SubmitIn(w)

NextLive ==
    \/ UpdateLive
    \/ SubmitLive
    \/ \E job \in JobIds : Kill(job)
    \/ \E job \in JobIds : JobLeaves(job)

\* update() keeps being called, and every job of the real queue ends.
SpecLive ==
    /\ InitLive
    /\ [][NextLive]_vars
    /\ WF_vars(UpdateLive)
    /\ \A job \in JobIds : WF_vars(JobLeaves(job))

(* ------------------------ SimulationRunner.clean ----------------------- *)
(* A Leg with up to MaxSubRunners Stages, each node with a base and an     *)
(* output directory. A file name and a pattern are sequences of            *)
(* characters; a directory is the set of the names of its files.          *)

\* Longest run_files list a clean(clean_logs=True) is still called with.
MaxRunFiles == 7

\* self.__class__.__name__ + ".log", as its characters.
LogName(cls) ==
    (IF cls = "Leg" THEN <<"L", "e", "g">> ELSE <<"S", "t", "a", "g", "e">>)
        \o <<".", "l", "o", "g">>

\* The class whose run_files list self.__class__.run_files is: Leg has none
\* of its own.
RunFilesOwner(cls) == IF cls = "Stage" THEN "Stage" ELSE "SimulationRunner"

\* Whether the pattern p matches the whole file name f ("*" matches any run
\* of characters, every other character itself).
RECURSIVE fnmatch(_, _)
fnmatch(p, f) ==
    IF p = <<>> THEN f = <<>>
    ELSE IF Head(p) = "*"
    THEN \E k \in 0 .. Len(f) : fnmatch(Tail(p), SubSeq(f, k + 1, Len(f)))
    ELSE f # <<>> /\ Head(f) = Head(p) /\ fnmatch(Tail(p), Tail(f))

\* Lines 357-366: the patterns from the i-th on; glob gives the files of
\* the directory that the pattern matches. c: the directories and how the
\* call stands. dot: what Path.glob(".") does, which differs between
\* versions of pathlib: it raises IndexError, or it yields the directory
\* itself, which rm does not delete.
RECURSIVE CleanPatterns(_, _, _, _, _)
CleanPatterns(self, patterns, i, c, dot) ==
    IF i > Len(patterns) \/ c.ret # "ok" THEN c
    ELSE LET run_file == patterns[i]
             glob(d) == {f \in c.dir_files[d] : fnmatch(run_file, f)}
             Rm(d) == c.dir_files[d] \ glob(d)
         IN IF run_file = <<".">>
            THEN CleanPatterns(self, patterns, i + 1,
                               IF dot = "IndexError"
                               THEN [c EXCEPT !.ret = "IndexError"] ELSE c,
                               dot)
            ELSE CleanPatterns(
                     self, patterns, i + 1,
                     [c EXCEPT !.dir_files =
                         [d \in DOMAIN c.dir_files |->
                             IF d \in {self.base_dir, self.output_dir}
                             THEN Rm(d) ELSE c.dir_files[d]]],
                     dot)

\* clean(clean_logs) on self (i = 0), and the loop of lines 369-371 over
\* the sub-runners from the i-th on (i > 0). run_files += str extends the
\* list of the class in place by the characters of the string.
RECURSIVE clean(_, _, _, _, _)
clean(self, i, clean_logs, c, dot) ==
    IF c.ret # "ok" THEN c
    ELSE IF i = 0
    THEN LET owner == RunFilesOwner(self.cls)
             name == LogName(self.cls)
             c1 == IF clean_logs
                   THEN [c EXCEPT !.run_files[owner] =
                            @ \o [k \in 1 .. Len(name) |-> <<name[k]>>]]
                   ELSE c
         IN clean(self, 1, clean_logs,
                  CleanPatterns(self, c1.run_files[owner], 1, c1, dot), dot)
    ELSE IF i > Len(self.sub_sim_runners) THEN c
    ELSE clean(self, i + 1, clean_logs,
               clean(self.sub_sim_runners[i], 0, clean_logs, c, dot), dot)

\* A Leg with k Stages, constructed: every node has its base and its
\* output directory. The base directory of a node holds its log file; the
\* leg's may also hold an output file and files whose name is one letter,
\* a stage's holds an output file, and an output directory may hold one.
InitClean ==
    /\ NoQueue
    /\ takes_update_paths = FALSE
    /\ input_files = [d \in {"base/input", "alt/input"} |-> {}]
    /\ pkl = [c \in {"SimulationRunner", "Leg"} |-> <<>>]
    /\ obj = <<>>
    /\ run_call = RunCall("none", "ok")
    /\ analysed = <<>>
    /\ wait_pc = "idle"
    /\ run_files = ClassRunFiles
    /\ \E k \in 0 .. MaxSubRunners :
         LET CleanNode(cls, b, subs) ==
                 [cls |-> cls, base_dir |-> b, output_dir |-> b \o "/output",
                  sub_sim_runners |-> subs]
             OtherFiles == {<<"x", ".", "d", "a", "t">>, <<"g">>, <<"e">>}
             stages == [j \in 1 .. k |->
                           CleanNode("Stage", IF j = 1 THEN "leg/stage1"
                                                       ELSE "leg/stage2", <<>>)]
             leg == CleanNode("Leg", "leg", stages)
             bases == {leg.base_dir} \cup {stages[j].base_dir : j \in 1 .. k}
             outputs == {leg.output_dir} \cup {stages[j].output_dir : j \in 1 .. k}
         IN /\ node = <<leg>>
            /\ \E base_other \in SUBSET OtherFiles,
                  output_other \in {{}, {<<"x", ".", "d", "a", "t">>}} :
                 dir_files =
                     [d \in bases \cup outputs |->
                         IF d = leg.base_dir
                         THEN {LogName("Leg")} \cup base_other
                         ELSE IF d \in bases
                         THEN {LogName("Stage"), <<"x", ".", "d", "a", "t">>}
                         ELSE output_other]

\* node.clean(clean_logs) on the leg (which = 0) or on one of its stages.
Clean(which, clean_logs, dot) ==
    /\ which <= Len(node[1].sub_sim_runners)
    /\ clean_logs =>
          \A owner \in DOMAIN run_files : Len(run_files[owner]) <= MaxRunFiles
    /\ LET self == IF which = 0 THEN node[1]
                   ELSE node[1].sub_sim_runners[which]
           r == clean(self, 0, clean_logs,
                      [run_files |-> run_files, dir_files |-> dir_files,
                       ret |-> "ok"], dot)
       IN /\ run_files' = r.run_files
          /\ dir_files' = r.dir_files
          /\ run_call' = [op |-> "clean", ret |-> r.ret, which |-> which,
                          clean_logs |-> clean_logs]
    /\ UNCHANGED <<qvars, envvars, histvars, log, thrvars, node, analysed,
                   wait_pc, takes_update_paths, input_files, pkl, obj>>

NextClean ==
    \E which \in 0 .. MaxSubRunners, clean_logs \in BOOLEAN,
       dot \in {"IndexError", "directory"} :
        Clean(which, clean_logs, dot)

SpecClean == InitClean /\ [][NextClean]_vars

(* --------------------- a node without sub-runners ---------------------- *)
(* A SimulationRunner or a Leg as its constructor returned it: its         *)
(* properties are read and its analyse is called before anything gave it   *)
(* sub-runners.                                                            *)

\* node.running, node.tot_simtime, node.equilibrated and node.equil_time of
\* the constructed node are read.
ReadNodeProperties ==
    /\ obj # <<>>
    /\ analysed' = <<Properties(obj[1].self)>>
    /\ run_call' = RunCall("properties", "ok")
    /\ UNCHANGED <<takes_update_paths, input_files, pkl, obj, node, wait_pc,
                   cleanvars, qvars, envvars, histvars, log, thrvars>>

\* node.analyse() of the constructed node. Leg.analyse reads
\* self.restraints of a bound leg (line 802), an attribute that only
\* run_ensemble_equilibration sets.
AnalyseNode ==
    /\ obj # <<>>
    /\ LET self == obj[1].self
           is_leg == obj[1].cls = "Leg"
           raises == /\ is_leg
                     /\ self.leg_type = "BOUND"
                     /\ "restraints" \notin DOMAIN self
       IN /\ analysed' = IF raises THEN <<>>
                         ELSE IF is_leg THEN <<LegAnalyse(self)>>
                         ELSE <<analyse(self)>>
          /\ run_call' = RunCall("analyse",
                                 IF raises THEN "AttributeError" ELSE "ok")
    /\ UNCHANGED <<takes_update_paths, input_files, pkl, obj, node, wait_pc,
                   cleanvars, qvars, envvars, histvars, log, thrvars>>

NextEmpty ==
    \/ \E a \in SimulationRunnerArgs : ConstructSimulationRunner(a)
    \/ \E a \in LegArgs : ConstructLeg(a)
    \/ ReadNodeProperties
    \/ AnalyseNode

SpecEmpty == InitRun /\ [][NextEmpty]_vars

(* ============================== claims ================================ *)
\* The last call was update, alone or at the end of submit, and returned.
UpdateReturned ==
    /\ last_call.op \in {"update", "submit"}
    /\ last_call.ret = "ok"

\* The jobs created so far.
Created == {j \in JobIds : j < available_virt_job_id}

Terminal == {"FINISHED", "FAILED", "KILLED"}

\* C1: whenever update() returns, for every queue_len_lim and after any
\* submits, kills and updates interleaved with jobs ending in the real
\* queue, _slurm_queue holds at most queue_len_lim jobs.
C1_AdmittedWithinLimit ==
    UpdateReturned => Len(slurm_queue) <= queue_len_lim

\* C1's case: update returned with a full real queue, jobs still waiting
\* and a job that ended before.
C1_Witness ==
    /\ UpdateReturned
    /\ queue_len_lim >= 1
    /\ Len(slurm_queue) = queue_len_lim
    /\ pre_queue # <<>>
    /\ \E j \in Created : status[j] \in {"FINISHED", "FAILED"}

\* Every job with a slurm id is still listed by squeue: none has ended.
NoneEnded(jobs) ==
    \A j \in jobs : slurm_job_id[j] # None => slurm_job_id[j] \in active

\* C2: jobs leave the pre-queue in submission order. No job has been moved
\* to the real queue while a job submitted before it is still in the
\* pre-queue, and the pre-queue is in submission order. With queue_len_lim
\* = 2 and jobs 0..4 submitted while none ends, _slurm_queue = [0, 1] and
\* _pre_queue = [2, 3, 4]; once job 0 alone has ended and an update saw it,
\* _slurm_queue = [1, 2] and _pre_queue = [3, 4].
C2_FifoAdmission ==
    /\ \A j \in Range(pre_queue) : \A k \in Created :
          (k \in Range(slurm_queue) \/ n_sbatch[k] > 0) => k < j
    /\ \A a, b \in 1 .. Len(pre_queue) : a < b => pre_queue[a] < pre_queue[b]
    /\ ( /\ queue_len_lim = 2
         /\ available_virt_job_id = 5
         /\ \A j \in 0 .. 4 : status[j] = "QUEUED"
         /\ NoneEnded(0 .. 4) )
       => (slurm_queue = <<0, 1>> /\ pre_queue = <<2, 3, 4>>)
    /\ ( /\ queue_len_lim = 2
         /\ available_virt_job_id = 5
         /\ status[0] \in {"FINISHED", "FAILED"}
         /\ \A j \in 1 .. 4 : status[j] = "QUEUED"
         /\ NoneEnded(1 .. 4) )
       => (slurm_queue = <<1, 2>> /\ pre_queue = <<3, 4>>)

\* C2's case: the five jobs with queue_len_lim = 2, after job 0 ended and
\* update moved job 2.
C2_Witness ==
    /\ queue_len_lim = 2
    /\ available_virt_job_id = 5
    /\ last_call = Call("update", "ok")
    /\ status[0] = "FINISHED"
    /\ slurm_queue = <<1, 2>>
    /\ pre_queue = <<3, 4>>
    /\ NoneEnded(1 .. 4)

\* The last call was submit, kill or update and returned.
CallCompleted ==
    /\ last_call.op \in {"submit", "kill", "update"}
    /\ last_call.ret = "ok"

\* C3: after every completed submit, kill or update, each QUEUED job is in
\* exactly one of _slurm_queue and _pre_queue, and each FINISHED, FAILED or
\* KILLED job is in neither.
C3_QueuedInOneTerminalInNone ==
    CallCompleted =>
        \A j \in Created :
            /\ status[j] = "QUEUED" =>
                  (j \in Range(slurm_queue)) # (j \in Range(pre_queue))
            /\ status[j] \in Terminal =>
                  (j \notin Range(slurm_queue) /\ j \notin Range(pre_queue))

\* C4: kill(job) of a job the queue holds removes it from _slurm_queue and
\* _pre_queue; kill of a job it does not hold (a job killed before, a
\* FINISHED job that update removed) raises and leaves both queues and
\* every status as they were.
C4_KillRemovesOrFails ==
    [][\A j \in JobIds : Kill(j) =>
          /\ IF j \in Range(queue)
             THEN /\ last_call'.ret = "ok"
                  /\ j \notin Range(slurm_queue')
                  /\ j \notin Range(pre_queue')
             ELSE /\ last_call'.ret = "ValueError:remove"
                  /\ UNCHANGED <<slurm_queue, pre_queue, status>>
          /\ status[j] = "KILLED" => last_call'.ret = "ValueError:remove"]_vars

\* C4's case: kill raised, and every job the queue ever created had been
\* killed before: it was the second kill of a job.
C4_Witness ==
    /\ last_call = Call("kill", "ValueError:remove")
    /\ Created # {}
    /\ \A j \in Created : status[j] = "KILLED"

\* C5: a status changes only from QUEUED to FINISHED or FAILED, in an
\* update, for a job of the real queue that squeue does not list, or from
\* QUEUED to KILLED, in a kill (and from NONE to QUEUED when submit creates
\* the job); FINISHED, FAILED and KILLED never change, and only a QUEUED job
\* is given to sbatch.
C5_StatusTransitions ==
    [][\A j \in JobIds :
          /\ status'[j] # status[j] =>
                \/ status[j] = "NONE" /\ status'[j] = "QUEUED"
                \/ /\ status[j] = "QUEUED"
                   /\ status'[j] \in {"FINISHED", "FAILED"}
                   /\ last_call'.op \in {"update", "submit"}
                   /\ j \in Range(slurm_queue)
                   /\ slurm_job_id[j] \notin active
                \/ /\ status[j] = "QUEUED"
                   /\ status'[j] = "KILLED"
                   /\ last_call'.op = "kill"
          /\ n_sbatch'[j] # n_sbatch[j] => status'[j] = "QUEUED"]_vars

\* The newest of the files holds an instability message.
NewestHasSignature(files) ==
    \E f \in files :
        /\ \A g \in files : g.ctime <= f.ctime
        /\ \E i \in 1 .. Len(f.lines) : f.lines[i] \in error_statements

\* C6: an update that reaches the scheduler sets every job of _slurm_queue
\* that squeue does not list to FAILED if the newest file matching its
\* pattern holds an instability message and to FINISHED in every other
\* case, and removes it from _slurm_queue; the listed jobs stay QUEUED and
\* stay in _slurm_queue.
C6_UpdateClassifies ==
    [][\A w \in Worlds(slurm_queue, slurm_job_id, active, MostMoved(Len(pre_queue))) :
          (w.reachable /\ UpdateIn(w)) =>
             \A j \in Range(slurm_queue) :
                IF slurm_job_id[j] \notin active
                THEN /\ status'[j] = (IF NewestHasSignature(w.files[j])
                                      THEN "FAILED" ELSE "FINISHED")
                     /\ j \notin Range(slurm_queue')
                ELSE /\ status'[j] = "QUEUED"
                     /\ j \in Range(slurm_queue')]_vars

\* C7 as claimed: when update() returns, _pre_queue is non-empty only if
\* _slurm_queue holds queue_len_lim jobs.
C7_PendingOnlyWhenAdmittedFull ==
    (UpdateReturned /\ pre_queue # <<>>) => Len(slurm_queue) = queue_len_lim

\* C7 as amended: when update() returns, _pre_queue is non-empty only if
\* squeue lists at least queue_len_lim jobs of the user, whoever submitted
\* them.
C7_PendingOnlyWhenRealQueueFull ==
    (UpdateReturned /\ pre_queue # <<>>) => Cardinality(active) >= queue_len_lim

\* C7's case: update returned and left a job waiting although _slurm_queue
\* has room, because the user has another job in the real queue.
C7_Witness ==
    /\ UpdateReturned
    /\ pre_queue # <<>>
    /\ Len(slurm_queue) < queue_len_lim
    /\ active \cap ForeignIds # {}

\* C8: an update whose squeue does not reach the scheduler raises and
\* changes no queue, no status, no slurm id and nothing in the real queue.
C8_UnreachableSchedulerChangesNothing ==
    [][UpdateIn(World(FALSE, NoFiles, 0)) =>
          /\ last_call'.ret = "ValueError:squeue"
          /\ UNCHANGED <<qvars, active, n_sbatch, scancelled>>]_vars

\* C8's case: update raised on the squeue output while the queue held a job
\* that had left the real queue and a job waiting.
C8_Witness ==
    /\ last_call = Call("update", "ValueError:squeue")
    /\ \E j \in Range(slurm_queue) : slurm_job_id[j] \notin active
    /\ pre_queue # <<>>

\* C9: after an update in which an sbatch failed, the jobs whose sbatch
\* succeeded are in _slurm_queue with their slurm ids and every job not yet
\* given to the scheduler is in _pre_queue.
C9_FailedSbatchLeavesJobsPending ==
    last_call.ret = "ValueError:sbatch" =>
        \A j \in Created :
            status[j] = "QUEUED" =>
                IF n_sbatch[j] > 0
                THEN j \in Range(slurm_queue) /\ slurm_job_id[j] # None
                ELSE j \in Range(pre_queue)

\* C10: with update() run by two threads on the same queue, no job is given
\* to sbatch more than once and, whenever both threads are outside update(),
\* every QUEUED job is in _slurm_queue or _pre_queue.
C10_AdmissionSerialized ==
    /\ \A j \in JobIds : n_sbatch[j] <= 1
    /\ (\A t \in Threads : pc[t] = "idle") =>
          \A j \in Created :
              status[j] = "QUEUED" =>
                  (j \in Range(slurm_queue) \/ j \in Range(pre_queue))

\* C11: the virtual ids one queue gives out go up by one with every submit
\* and are never given twice: a job is created only with the id
\* _available_virt_job_id, which is then raised past it, whether the submit
\* returns or raises, and whatever was killed or has finished before.
C11_IdsNeverReused ==
    [][/\ available_virt_job_id' >= available_virt_job_id
       /\ \A j \in JobIds :
             /\ (status[j] = "NONE" /\ status'[j] # "NONE") =>
                    (j = available_virt_job_id /\ available_virt_job_id' = j + 1)
             /\ status[j] # "NONE" =>
                    (status'[j] # "NONE" /\ j < available_virt_job_id)]_vars

\* C11's case: a submit that raised has just created a job, after an
\* earlier job was killed and another one finished or failed.
C11_Witness ==
    /\ last_call.op = "submit"
    /\ last_call.ret # "ok"
    /\ status[available_virt_job_id - 1] = "QUEUED"
    /\ \E j \in Created : status[j] = "KILLED"
    /\ \E j \in Created : status[j] \in {"FINISHED", "FAILED"}

\* C12: after every completed submit, update or kill, every job of
\* _slurm_queue has the slurm id sbatch returned for it and every job of
\* _pre_queue has none; the job a submit returns is QUEUED.
C12_AdmittedHaveSchedulerIds ==
    CallCompleted =>
        /\ \A j \in Range(slurm_queue) :
              /\ n_sbatch[j] > 0
              /\ slurm_job_id[j] = SlurmId(j, n_sbatch[j] - 1)
        /\ \A j \in Range(pre_queue) : slurm_job_id[j] = None
        /\ last_call.op = "submit" =>
              status[available_virt_job_id - 1] = "QUEUED"

\* C13: kill(job) of a job of _slurm_queue runs scancel for its slurm id,
\* kill of a job of _pre_queue runs no scancel, and both set the job to
\* KILLED.
C13_KillCancelsAdmittedOnly ==
    [][\A j \in JobIds : (Kill(j) /\ j \in Range(queue)) =>
          /\ status'[j] = "KILLED"
          /\ IF j \in Range(slurm_queue)
             THEN /\ scancelled' = scancelled \cup {slurm_job_id[j]}
                  /\ slurm_job_id[j] \notin active'
             ELSE scancelled' = scancelled]_vars

\* C13's case: one job was killed in the real queue and scancelled, another
\* was killed before sbatch ever saw it, with no scancel.
C13_Witness ==
    /\ last_call = Call("kill", "ok")
    /\ \E j \in Created :
          /\ status[j] = "KILLED"
          /\ slurm_job_id[j] # None
          /\ slurm_job_id[j] \in scancelled
    /\ \E j \in Created :
          /\ status[j] = "KILLED"
          /\ slurm_job_id[j] = None
          /\ None \notin scancelled

\* C14: after every completed submit, kill or update, the last snapshot in
\* virtual_queue.log shows _slurm_queue and _pre_queue as they are, with
\* the status of their jobs.
C14_SnapshotAfterEveryCall ==
    CallCompleted =>
        log[Len(log)] = Snapshot(slurm_queue, pre_queue, available_virt_job_id,
                                 queue_len_lim, status, slurm_job_id)

\* The directory a constructor uses for an argument that may be None.
OrDefault(dir, default) == IF dir = "None" THEN default ELSE dir

\* The attributes of the object obj holds are those of the pickle p, but
\* for loaded_from_pickle, which is True.
LoadedFrom(p) ==
    /\ obj'[1].self.loaded_from_pickle
    /\ DOMAIN obj'[1].self = DOMAIN p \cup {"loaded_from_pickle"}
    /\ \A f \in DOMAIN p \ {"loaded_from_pickle"} : obj'[1].self[f] = p[f]

\* C15: a constructor that returns at a base directory that holds the
\* pickle of its class gives the object the pickled ensemble_size,
\* directories, log level and (for a Leg) preparation stage, whatever the
\* arguments, with loaded_from_pickle = True, and writes nothing; without
\* the pickle the object has what the arguments say, loaded_from_pickle =
\* False, and the pickle written holds the object.
C15_ConstructLoadsOrBuilds ==
    [][/\ \A a \in SimulationRunnerArgs :
             (ConstructSimulationRunner(a) /\ run_call'.ret = "ok") =>
                 IF pkl["SimulationRunner"] # <<>>
                 THEN LoadedFrom(pkl["SimulationRunner"][1]) /\ pkl' = pkl
                 ELSE /\ ~obj'[1].self.loaded_from_pickle
                      /\ obj'[1].self.ensemble_size = a.ensemble_size
                      /\ obj'[1].self.stream_log_level = a.stream_log_level
                      /\ obj'[1].self.input_dir = OrDefault(a.input_dir, "base/input")
                      /\ obj'[1].self.output_dir = OrDefault(a.output_dir, "base/output")
                      /\ pkl'["SimulationRunner"] = <<obj'[1].self>>
       /\ \A a \in LegArgs :
             (ConstructLeg(a) /\ run_call'.ret = "ok") =>
                 IF pkl["Leg"] # <<>>
                 THEN LoadedFrom(pkl["Leg"][1]) /\ pkl' = pkl
                 ELSE /\ ~obj'[1].self.loaded_from_pickle
                      /\ obj'[1].self.ensemble_size = a.ensemble_size
                      /\ obj'[1].self.stream_log_level = a.stream_log_level
                      /\ obj'[1].self.input_dir = OrDefault(a.input_dir, "base/input")
                      /\ obj'[1].self.output_dir = "base/output"
                      /\ "prep_stage" \in DOMAIN obj'[1].self
                      /\ pkl'["Leg"] = <<obj'[1].self>>]_vars

\* C15's case: a node was loaded from a pickle that was written with
\* arguments other than the defaults.
C15_Witness ==
    /\ obj # <<>>
    /\ run_call.op = obj[1].cls
    /\ obj[1].self.loaded_from_pickle
    /\ obj[1].self.input_dir = "alt/input"
    /\ obj[1].self.ensemble_size = MaxEnsemble

\* C16: after every operation on a node, the pickle of its class in the
\* base directory holds the attributes the node has in memory
\* (loaded_from_pickle aside, which only tells how the object was made).
C16_SnapshotEqualsMemory ==
    obj # <<>> =>
        LET self == obj[1].self
            p == pkl[obj[1].cls]
        IN /\ p # <<>>
           /\ \A f \in DOMAIN self \ {"loaded_from_pickle"} :
                 f \in DOMAIN p[1] /\ p[1][f] = self[f]

C18_BadMultiplierFails ==
    [][\A a \in SimulationRunnerArgs :
          (ConstructSimulationRunner(a) /\ a.dg_multiplier \notin {-1, 1}) =>
              /\ run_call'.ret = "ValueError"
              /\ pkl' = pkl]_vars

\* C18: a SimulationRunner constructed with a dg_multiplier that is neither
\* +1 nor -1 at a base directory without its pickle raises ValueError,
\* returns no object and writes no pickle; at a base directory with the
\* pickle the argument is not looked at and the pickled node is returned.
C18_BadMultiplierFailsUnlessLoaded ==
    [][\A a \in SimulationRunnerArgs :
          (ConstructSimulationRunner(a) /\ a.dg_multiplier \notin {-1, 1}) =>
              IF pkl["SimulationRunner"] = <<>>
              THEN /\ run_call'.ret = "ValueError"
                   /\ obj' = <<>>
                   /\ pkl' = pkl
              ELSE /\ run_call'.ret = "ok"
                   /\ obj'[1].self.dg_multiplier = pkl["SimulationRunner"][1].dg_multiplier
                   /\ obj'[1].self.dg_multiplier \in {-1, 1}
                   /\ pkl' = pkl]_vars

\* C18's case: a construction raised ValueError and the base directory
\* holds no pickle of a SimulationRunner (but that of an earlier Leg).
C18_Witness ==
    /\ run_call = RunCall("SimulationRunner", "ValueError")
    /\ pkl["SimulationRunner"] = <<>>
    /\ pkl["Leg"] # <<>>

RECURSIVE SumSeq(_)
SumSeq(s) == IF s = <<>> THEN 0 ELSE Head(s) + SumSeq(Tail(s))

\* C20: analyse of a node returns, for every repeat r, the sum of
\* dg_multiplier * dg[r] over its sub-runners, and an error whose square is
\* the sum of the squares of their errors; the node's own dg_multiplier
\* plays no part.
C20_AnalyseSumsSubRunners ==
    analysed # <<>> =>
        LET subs == node[1].sub_sim_runners
        IN \A r \in 1 .. node[1].ensemble_size :
              /\ analysed[1].dg[r] =
                     SumSeq([i \in DOMAIN subs |->
                                subs[i].dg_multiplier * subs[i].dg[r]])
              /\ Square(analysed[1].er[r]) =
                     SumSeq([i \in DOMAIN subs |-> Square(subs[i].er[r])])

\* C20's case: a node with dg_multiplier -1 was analysed whose sub-runners
\* have both signs, free energies other than 0 and errors other than 0.
C20_Witness ==
    /\ analysed # <<>>
    /\ node[1].dg_multiplier = 0 - 1
    /\ Len(node[1].sub_sim_runners) = MaxSubRunners
    /\ \E c \in Range(node[1].sub_sim_runners) :
          c.dg_multiplier = 0 - 1 /\ c.dg[1] # 0 /\ Square(c.er[1]) # 0
    /\ \E c \in Range(node[1].sub_sim_runners) :
          c.dg_multiplier = 1 /\ c.dg[1] # 0 /\ Square(c.er[1]) # 0

\* The leaves of a root of nodes, each with the product of the dg_multipliers
\* on its path below the root.
RECURSIVE SignedLeaves(_, _)
SignedLeaves(subs, j) ==
    IF j > Len(subs) THEN <<>>
    ELSE [i \in DOMAIN subs[j].sub_sim_runners |->
             [sign |-> subs[j].dg_multiplier
                          * subs[j].sub_sim_runners[i].dg_multiplier,
              dg |-> subs[j].sub_sim_runners[i].dg,
              er |-> subs[j].sub_sim_runners[i].er]]
         \o SignedLeaves(subs, j + 1)

\* C21: analysing a root of nodes of leaves gives, for every repeat, the
\* signed sum of the leaves' dg and the sum of the squares of their errors,
\* each leaf with the product of the dg_multipliers below the root as its
\* sign, however the leaves are grouped into the nodes.
C21_GroupingDoesNotMatter ==
    (analysed # <<>> /\ node[1].sub_sim_runners # <<>>
                     /\ IsNode(node[1].sub_sim_runners[1])) =>
        LET ls == SignedLeaves(node[1].sub_sim_runners, 1)
        IN \A r \in 1 .. node[1].ensemble_size :
              /\ analysed[1].dg[r] =
                     SumSeq([i \in DOMAIN ls |-> ls[i].sign * ls[i].dg[r]])
              /\ Square(analysed[1].er[r]) =
                     SumSeq([i \in DOMAIN ls |-> Square(ls[i].er[r])])

\* C21's case: a root of two nodes with different multipliers was analysed,
\* one node with two leaves of different multipliers, the other with one.
C21_Witness ==
    /\ analysed # <<>>
    /\ Len(node[1].sub_sim_runners) = 2
    /\ IsNode(node[1].sub_sim_runners[1])
    /\ node[1].sub_sim_runners[1].dg_multiplier = 0 - 1
    /\ node[1].sub_sim_runners[2].dg_multiplier = 1
    /\ Len(node[1].sub_sim_runners[1].sub_sim_runners) = 2
    /\ node[1].sub_sim_runners[1].sub_sim_runners[1].dg_multiplier
          # node[1].sub_sim_runners[1].sub_sim_runners[2].dg_multiplier
    /\ node[1].sub_sim_runners[1].sub_sim_runners[1].dg
          # node[1].sub_sim_runners[2].sub_sim_runners[1].dg

\* The leg of the state was analysed with analyse().
LegAnalysed ==
    /\ node # <<>>
    /\ "leg_type" \in DOMAIN node[1]
    /\ analysed # <<>>
    /\ "er" \in DOMAIN analysed[1]

\* The leg of the state was analysed with analyse_convergence().
LegConvergenceAnalysed ==
    /\ node # <<>>
    /\ "leg_type" \in DOMAIN node[1]
    /\ analysed # <<>>
    /\ "fracts" \in DOMAIN analysed[1]

\* C22: Leg.analyse returns the aggregation of its stages, with the
\* restraint correction of repeat r added to dg[r] exactly when the leg is
\* BOUND, and er the quadrature sum of the stages' errors for both legs.
C22_LegAnalyseAddsCorrections ==
    LegAnalysed =>
        LET leg == node[1]
            subs == leg.sub_sim_runners
        IN \A r \in 1 .. leg.ensemble_size :
              /\ analysed[1].dg[r] =
                     SumSeq([i \in DOMAIN subs |->
                                subs[i].dg_multiplier * subs[i].dg[r]])
                     + (IF leg.leg_type = "BOUND"
                        THEN leg.restraints[r].correction ELSE 0)
              /\ Square(analysed[1].er[r]) =
                     SumSeq([i \in DOMAIN subs |-> Square(subs[i].er[r])])
              /\ leg.leg_type = "FREE" => analysed[1] = analyse(leg)

\* C22's case: a bound leg with different corrections for its repeats and
\* stages of both signs was analysed.
C22_Witness ==
    /\ LegAnalysed
    /\ node[1].leg_type = "BOUND"
    /\ node[1].ensemble_size = MaxEnsemble
    /\ node[1].restraints[1].correction # node[1].restraints[2].correction
    /\ Len(node[1].sub_sim_runners) = MaxSubRunners
    /\ node[1].sub_sim_runners[1].dg_multiplier
          # node[1].sub_sim_runners[2].dg_multiplier

\* C23: Leg.analyse_convergence returns the 20 fractions 5, 10, ..., 100 per
\* cent and, for every repeat r and fraction f, the sum over the stages of
\* dg_multiplier * dgs[r][f], plus, for a bound leg only, the correction of
\* repeat r at every f; at every fraction this is what Leg.analyse makes of
\* the stages' values at that fraction.
C23_ConvergencePerFraction ==
    LegConvergenceAnalysed =>
        LET leg == node[1]
            subs == leg.sub_sim_runners
            At(f) == [leg EXCEPT !.sub_sim_runners =
                         [i \in DOMAIN subs |->
                             [subs[i] EXCEPT !.dg =
                                 [r \in DOMAIN subs[i].dgs |-> subs[i].dgs[r][f]]]]]
        IN /\ analysed[1].fracts = [i \in 1 .. 20 |-> 5 * i]
           /\ DOMAIN analysed[1].dg = 1 .. leg.ensemble_size
           /\ \A r \in 1 .. leg.ensemble_size :
                 /\ DOMAIN analysed[1].dg[r] = 1 .. 20
                 /\ \A f \in 1 .. 20 :
                       /\ analysed[1].dg[r][f] =
                              SumSeq([i \in DOMAIN subs |->
                                         subs[i].dg_multiplier * subs[i].dgs[r][f]])
                              + (IF leg.leg_type = "BOUND"
                                 THEN leg.restraints[r].correction ELSE 0)
                       /\ analysed[1].dg[r][f] = LegAnalyse(At(f)).dg[r]

\* C23's case: the convergence of a bound leg was analysed whose repeats
\* have different corrections and whose stages have curves that change with
\* the fraction and multipliers of both signs.
C23_Witness ==
    /\ LegConvergenceAnalysed
    /\ node[1].leg_type = "BOUND"
    /\ node[1].ensemble_size = MaxEnsemble
    /\ node[1].restraints[1].correction # node[1].restraints[2].correction
    /\ Len(node[1].sub_sim_runners) = MaxSubRunners
    /\ node[1].sub_sim_runners[1].dg_multiplier
          # node[1].sub_sim_runners[2].dg_multiplier
    /\ node[1].sub_sim_runners[1].dgs[1][1] # node[1].sub_sim_runners[1].dgs[1][20]

C25_KillReachesEveryDescendant ==
    [][KillRoot =>
          /\ ~running(Shown(node[1], slurm_queue', pre_queue'))
          /\ \A j \in TreeJobs :
                j \in Range(slurm_queue) => slurm_job_id[j] \in scancelled']_vars

\* C26: wait() returns only at a wake-up of the caller at which running is
\* False, so that the root is not running once wait() has returned after
\* run(...); and wait() returns once the root is no longer running.
C26_WaitReturnsWhenStopped ==
    /\ [](wait_pc = "returned" => ~RootRunning)
    /\ [][(wait_pc # "returned" /\ wait_pc' = "returned") =>
             (wait_pc = "sleep" /\ ~RootRunning)]_vars
    /\ ((wait_pc = "sleep" /\ ~RootRunning) ~> (wait_pc = "returned"))

\* C26's case: wait() has returned for a tree that was run, some of its jobs
\* finished and were taken off the queue, and the caller slept through a
\* wake-up at which the tree was still running.
C26_Witness ==
    /\ wait_pc = "returned"
    /\ Len(Simulations(node[1])) > 1
    /\ TreeJobs # {}
    /\ \A j \in TreeJobs : status[j] \in {"FINISHED", "FAILED"}


C29_UpdateRemakesTheWindows ==
    [][UpdateStage =>
          LET stage == node'[1]
          IN /\ stage.lam_vals = node[1].lam_vals
             /\ stage.ensemble_size = node[1].ensemble_size
             /\ Len(stage.lam_windows) = Len(stage.lam_vals)
             /\ \A i \in 1 .. Len(stage.lam_vals) :
                   /\ stage.lam_windows[i].lam = stage.lam_vals[i]
                   /\ stage.lam_windows[i].ensemble_size = stage.ensemble_size
                   /\ ~stage.lam_windows[i].equilibrated
                   /\ stage.lam_windows[i].equil_time = None]_vars

\* An update of a stage whose lam_vals and ensemble_size had both been
\* changed and one of whose old windows had an equilibration cached.
C29_Witness ==
    /\ run_call.op = "update"
    /\ Len(run_call.self.lam_windows) # Len(node[1].lam_windows)
    /\ \E i \in DOMAIN run_call.self.lam_windows :
          /\ run_call.self.lam_windows[i].equilibrated
          /\ run_call.self.lam_windows[i].ensemble_size # node[1].ensemble_size
          /\ run_call.self.lam_windows[i].lam \notin Range(node[1].lam_vals)
    /\ Len(node[1].lam_windows) > 1

\* C30: after reset() every lambda window of the stage has equilibrated
\* False and equil_time None cached, whatever was cached before, and is
\* otherwise the window it was.
C30_ResetClearsTheCache ==
    [][ResetStage =>
          /\ DOMAIN node'[1].lam_windows = DOMAIN node[1].lam_windows
          /\ \A i \in DOMAIN node'[1].lam_windows :
                /\ ~node'[1].lam_windows[i].equilibrated
                /\ node'[1].lam_windows[i].equil_time = None
                /\ node'[1].lam_windows[i].lam = node[1].lam_windows[i].lam]_vars

\* A reset of a stage with a window that had cached an equilibrated result
\* and one that had not.
C30_Witness ==
    /\ run_call.op = "reset"
    /\ \E i, j \in DOMAIN run_call.self.lam_windows :
          /\ run_call.self.lam_windows[i].equilibrated
          /\ run_call.self.lam_windows[i].equil_time # None
          /\ ~run_call.self.lam_windows[j].equilibrated
    /\ \A i \in DOMAIN node[1].lam_windows : ~node[1].lam_windows[i].equilibrated

\* Every node of the tree below n, n included, has had old replaced by new
\* in its three directories as they were in m, and logs to its file in its
\* base directory.
RECURSIVE PathsReplaced(_, _, _, _)
PathsReplaced(n, m, old, new) ==
    /\ n.base_dir = replace(m.base_dir, old, new)
    /\ n.input_dir = replace(m.input_dir, old, new)
    /\ n.output_dir = replace(m.output_dir, old, new)
    /\ n.file_handler = <<[dir |-> n.base_dir, name |-> n.cls]>>
    /\ Len(n.sub_sim_runners) = Len(m.sub_sim_runners)
    /\ \A i \in 1 .. Len(n.sub_sim_runners) :
          PathsReplaced(n.sub_sim_runners[i], m.sub_sim_runners[i], old, new)

\* C31: a call update_paths(old, new) that returns has replaced old by new
\* in base_dir, input_dir and output_dir of the node and of every
\* descendant, every node then logs to <its new base_dir>/<its class>.log,
\* base_dir is exactly new when old was the base_dir of the node, and it is
\* as it was when old does not occur in it.
C31_UpdatePathsReplacesEverywhere ==
    [][\A old \in {node[1].base_dir, <<"a">>, <<"x">>, <<>>},
          new \in {<<"n">>, <<"b">>},
          absent \in {{}, {"Stage"}} :
          (UpdatePaths(old, new, absent) /\ run_call'.ret = "ok") =>
              /\ PathsReplaced(node'[1], node[1], old, new)
              /\ (old = node[1].base_dir /\ old # <<>>) => node'[1].base_dir = new
              /\ (old # <<>> /\ \A j \in 1 .. Len(node[1].base_dir) :
                                    SubSeq(node[1].base_dir, j, j + Len(old) - 1) # old)
                    => node'[1].base_dir = node[1].base_dir]_vars

\* A call that returned on a leg with a stage and a lambda window and moved
\* the base directory of each of them.
C31_Witness ==
    /\ run_call.op = "update_paths"
    /\ run_call.ret = "ok"
    /\ run_call.old_sub_path = run_call.self.base_dir
    /\ Len(node[1].sub_sim_runners) = 2
    /\ node[1].base_dir = run_call.new_sub_path
    /\ node[1].base_dir # run_call.self.base_dir
    /\ node[1].sub_sim_runners[1].sub_sim_runners[1].base_dir
           # run_call.self.sub_sim_runners[1].sub_sim_runners[1].base_dir

\* C32: the lambda values get_optimal_lam_vals gives a stage are strictly
\* ascending (so none is there twice), begin with 0 and end with 1 (the
\* first and the last lambda value of the stage) and are two or more,
\* whatever the SEMs of the windows (none negative) and delta_sem (above 0).
C32_OptimalLamValsAscending ==
    [][(run_call.op = "none" /\ run_call'.op = "get_optimal_lam_vals"
                             /\ run_call'.ret = "ok") =>
                  \A i \in DOMAIN obj'[1].self.sub_sim_runners :
                      LET old == obj[1].self.sub_sim_runners[i].lam_vals
                          new == obj'[1].self.sub_sim_runners[i].lam_vals
                      IN /\ Len(new) >= 2
                         /\ new[1].num = old[1] * new[1].den
                         /\ new[Len(new)].num = old[Len(old)] * new[Len(new)].den
                         /\ \A j \in 1 .. Len(new) - 1 :
                               /\ new[j].den > 0 /\ new[j + 1].den > 0
                               /\ new[j].num * new[j + 1].den
                                      < new[j + 1].num * new[j].den]_vars

\* A stage given more than the two endpoints, one of them between two
\* windows and one found at the endpoint 1 as well.
C32_Witness ==
    /\ run_call.op = "get_optimal_lam_vals"
    /\ run_call.ret = "ok"
    /\ \E i \in DOMAIN obj[1].self.sub_sim_runners :
          LET new == obj[1].self.sub_sim_runners[i].lam_vals
              S == integrated_sems(run_call.sems[i], Len(run_call.sems[i]))
          IN /\ Len(new) > 3
             /\ \E j \in DOMAIN new : new[j].den > 1 /\ new[j].num % new[j].den # 0
             /\ S % (2 * run_call.delta_sem) = 0
             /\ run_call.sems[i][Len(run_call.sems[i])] > 0

C33_ValidateInputFindsTheMostAdvancedStage ==
    [][(takes_update_paths /\ pkl["Leg"] = <<>> /\ run_call'.op = "Leg") =>
          LET leg_type == pkl'["Leg"][1].leg_type
              present == input_files["base/input"]
              complete == {i \in 1 .. Len(PreparationStage) :
                              \A f \in required_input_files(
                                           leg_type, PreparationStage[i]) :
                                  f \in present}
          IN /\ (run_call'.ret = "ValueError") <=> (complete = {})
             /\ complete # {} =>
                   /\ run_call'.ret = "ok"
                   /\ obj' # <<>>
                   /\ obj'[1].self.leg_type = leg_type
                   /\ obj'[1].self.prep_stage \in
                          {PreparationStage[i] : i \in complete}
                   /\ \A i \in complete :
                          \E j \in i .. Len(PreparationStage) :
                              obj'[1].self.prep_stage = PreparationStage[j]]_vars

\* A bound leg was constructed on a directory that holds the files of
\* STRUCTURES_ONLY and SOLVATED, one of the two files of MINIMISED and none
\* of PARAMETERISED: it is at SOLVATED.
C33_Witness ==
    /\ run_call = RunCall("Leg", "ok")
    /\ obj # <<>>
    /\ ~obj[1].self.loaded_from_pickle
    /\ obj[1].self.leg_type = "BOUND"
    /\ obj[1].self.prep_stage = "SOLVATED"
    /\ required_input_files("BOUND", "STRUCTURES_ONLY") \subseteq input_files["base/input"]
    /\ InputFile("bound", "_min", "prm7") \in input_files["base/input"]
    /\ InputFile("bound", "_min", "rst7") \notin input_files["base/input"]
    /\ InputFile("bound", "_param", "prm7") \notin input_files["base/input"]

\* C35: under fair scheduling every job that was submitted is in the end
\* FINISHED or FAILED, unless it is killed.
C35_EverySubmittedJobIsServed ==
    \A job \in 0 .. (MaxJobs - 1) :
        (status[job] = "QUEUED") ~>
            (status[job] \in {"FINISHED", "FAILED", "KILLED"})

\* C36: clean(clean_logs=True) deletes, in the base and the output directory
\* of the node and of each of its sub-runners, the files that match a
\* pattern of the run_files of the node's class and the log file of the
\* node, and no other file.
C36_CleanDeletesRunFilesAndLogs ==
    [][(run_call'.op = "clean" /\ run_call'.clean_logs) =>
          LET self == IF run_call'.which = 0 THEN node[1]
                      ELSE node[1].sub_sim_runners[run_call'.which]
              cleaned == {self} \cup Range(self.sub_sim_runners)
              Due(n, d) ==
                  LET patterns == run_files[RunFilesOwner(n.cls)]
                  IN {f \in dir_files[d] :
                         \/ f = LogName(n.cls)
                         \/ \E i \in 1 .. Len(patterns) : fnmatch(patterns[i], f)}
          IN \A d \in DOMAIN dir_files :
                 dir_files'[d] =
                     dir_files[d] \
                         UNION {Due(n, d) :
                                  n \in {m \in cleaned :
                                            d \in {m.base_dir, m.output_dir}}}]_vars

\* C37: a call of clean leaves the run_files list of every class as the
\* class declares it, and a clean(clean_logs=False) deletes exactly the
\* files that match the declared patterns, whatever calls came before.
C37_CleanLeavesRunFilesUnchanged ==
    [][run_call'.op = "clean" =>
          /\ run_files' = run_files
          /\ ~run_call'.clean_logs =>
                LET self == IF run_call'.which = 0 THEN node[1]
                            ELSE node[1].sub_sim_runners[run_call'.which]
                    cleaned == {self} \cup Range(self.sub_sim_runners)
                    Declared(n, d) ==
                        LET patterns == ClassRunFiles[RunFilesOwner(n.cls)]
                        IN {f \in dir_files[d] :
                               \E i \in 1 .. Len(patterns) :
                                   fnmatch(patterns[i], f)}
                IN /\ run_call'.ret = "ok"
                   /\ \A d \in DOMAIN dir_files :
                          dir_files'[d] =
                              dir_files[d] \
                                  UNION {Declared(n, d) :
                                           n \in {m \in cleaned :
                                                     d \in {m.base_dir,
                                                            m.output_dir}}}]_vars

\* C38: a submit whose update raises returns no job to its caller, and the
\* job it created is then in neither list of the queue.
C38_TrackedJobsWereReturned ==
    [][(/\ available_virt_job_id' = available_virt_job_id + 1
        /\ last_call'.op = "submit"
        /\ last_call'.ret # "ok") =>
           available_virt_job_id \notin
               Range(slurm_queue') \cup Range(pre_queue')]_vars

====
